---- MODULE Spec2Model ----
(***************************************************************************)
(* Local time-series cache of the ESIOS client (src/src/esios/cache.py)    *)
(* and the cache-aware fetch of IndicatorHandle.historical                 *)
(* (src/src/esios/managers/indicators.py).                                 *)
(*                                                                         *)
(* Time is counted in whole hours.  A Timestamp is a record                *)
(* [wall, tz]: wall is the wall-clock hour count since day 0 00:00 and tz  *)
(* is "naive", "UTC" or "Europe/Madrid".  A frame's index holds instants   *)
(* (UTC hour counts) and the frame carries the zone of its DatetimeIndex.  *)
(* All dates of the model are winter dates (CET = UTC+1).                  *)
(***************************************************************************)
EXTENDS Integers, Sequences, FiniteSets, TLC

VARIABLES
    file,       \* {cache_dir}/indicators/600/data.parquet: a frame or NoFile
    op,         \* the last direct CacheStore call: arguments, file before,
                \* result
    nwrites,    \* number of direct write() calls since the item was created
    now,        \* pd.Timestamp.now(tz="UTC"), as an instant
    req,        \* arguments of the call in progress
    cached_df,  \* the frame handed to find_gaps
    gaps,       \* the list find_gaps returned
    pc,         \* position of the call in progress
    enabled,    \* CacheConfig.enabled
    meta_geos,  \* geo ids listed in the handle's metadata["geos"]
    before,     \* the data file when the call in progress started
    gi,         \* index in gaps of the sub-range being fetched
    current,    \* start of the next chunk
    all_values, \* responses accumulated by the call in progress
    calls,      \* transport calls issued by the call in progress
    result,     \* the frame the call returned
    lastcall,   \* the previous completed call: request, calls, result
    ncalls,     \* number of completed historical calls
    tmp,        \* the temp file of the write in progress, or NoFile
    seen,       \* what the last concurrent reader found in the data file
    geos,       \* {cache_dir}/geos.json: the registry map, or NoFile
    catalog,    \* {cache_dir}/indicators/catalog.json, or NoFile
    meta,       \* {cache_dir}/indicators/600/meta.json, or NoFile
    merges,     \* the arguments of the merge_geos calls so far
    net,        \* endpoints the manager asked the transport for
    out,        \* what the last manager call returned
    bundles,    \* {cache_dir}/archives/{id}/: files of each bundle directory
    arc,        \* the archive handle and its download call in progress
    zip,        \* a ZipExtractor: its archive and the paths it has written
    http,       \* a client call: the responses it meets and its attempts
    tree,       \* the files under cache_dir that clear() walks
    wr,         \* an atomic write: its step, the target and the temp file
    ws,         \* two writers of one item: frames, what each read, temp files
    legacy      \* the flat file {endpoint}/{item_id}.parquet of the old layout

storeVars == <<file, op, nwrites>>
planVars == <<now, req, cached_df, gaps, pc>>
callVars == <<enabled, meta_geos, before, gi, current, all_values, calls,
              result, lastcall, ncalls>>
fsVars == <<tmp, seen>>
regVars == <<geos, catalog, meta, merges, net, out>>
auxVars == <<zip, http, tree, wr, ws, legacy>>
extVars == <<bundles, arc, auxVars>>
vars == <<file, op, nwrites, now, req, cached_df, gaps, pc, enabled,
          meta_geos, before, gi, current, all_values, calls, result,
          lastcall, ncalls, tmp, seen, geos, catalog, meta, merges, net,
          out, bundles, arc, zip, http, tree>>

-----------------------------------------------------------------------------
(* Bounds of the model *)

MaxStoreHour == 1      \* the store is exercised on instants 0..MaxStoreHour
MaxVal == 2            \* cell values are 1..MaxVal
MaxWrites == 2         \* writes per behaviour of the store
MaxHoles == 1          \* holes in a frame handed to write()
MaxGapDay == 2         \* find_gaps is exercised on days 0..MaxGapDay
MaxHistDay == 2        \* the server has data for days 0..MaxHistDay
MaxChunkDay == 23      \* the latest day a chunked request ends on
MaxCalls == 2          \* historical calls per behaviour
MaxMerges == 3         \* merge_geos calls per behaviour
MaxManagerCalls == 2   \* list, search and get calls per behaviour
MaxArcMonth == 2       \* archive ranges lie in months 0..MaxArcMonth
MaxArcCalls == 2       \* archive downloads per behaviour
MaxZipMembers == 2     \* members of the outer archive handed to unzip

-----------------------------------------------------------------------------
(* Time *)

HoursPerDay == 24

TIMEZONE == "Europe/Madrid"

\* UTC offset of a zone in hours (CET for Europe/Madrid, winter dates).
MadridOffset == 1

UtcOffset(tz) == IF tz = TIMEZONE THEN MadridOffset ELSE 0

Ts(wall, tz) == [wall |-> wall, tz |-> tz]

\* The instant (UTC hour count) a tz-aware timestamp denotes.
Instant(ts) == ts.wall - UtcOffset(ts.tz)

\* Timestamp.tz_localize: keep the wall clock, attach the zone.
tz_localize(ts, tz) == [wall |-> ts.wall, tz |-> tz]

\* Timestamp.tz_convert: keep the instant, change the wall clock.
tz_convert(ts, tz) == [wall |-> Instant(ts) + UtcOffset(tz), tz |-> tz]

\* Timestamp.hour
HourOf(ts) == ts.wall % HoursPerDay

Min(a, b) == IF a <= b THEN a ELSE b
Max(a, b) == IF a >= b THEN a ELSE b

-----------------------------------------------------------------------------
(* Wide frames *)

NaN == -1

Range(s) == {s[i] : i \in DOMAIN s}

SetMin(S) == CHOOSE x \in S : \A y \in S : x <= y
SetMax(S) == CHOOSE x \in S : \A y \in S : x >= y

\* The elements of a finite set of integers in increasing order.
SortedSeq(S) ==
    IF S = {} THEN << >>
    ELSE LET lo == SetMin(S)
             hi == SetMax(S)
         IN  SelectSeq([i \in 1 .. hi - lo + 1 |-> lo + i - 1],
                       LAMBDA t : t \in S)

\* A frame with the given zone, row labels and columns whose cell (t, c)
\* is F(t, c).
MkFrame(tz, index, columns, F(_, _)) ==
    [tz |-> tz, index |-> index, columns |-> columns,
     cell |-> [p \in Range(index) \X columns |-> F(p[1], p[2])]]

\* pd.DataFrame(): no rows, no columns, no DatetimeIndex.
EmptyFrame == MkFrame("none", << >>, {}, LAMBDA t, c : NaN)

\* DataFrame.empty: any axis of length 0.
IsEmpty(df) == Len(df.index) = 0 \/ df.columns = {}

\* Value of cell (t, c) after reindexing: NaN where the frame has no such
\* row or no such column.
At(df, t, c) ==
    IF t \in Range(df.index) /\ c \in df.columns THEN df.cell[<<t, c>>]
    ELSE NaN

\* Index.union: the index itself when both are equal, else the sorted union.
IndexUnion(a, b) == IF a = b THEN a ELSE SortedSeq(Range(a) \cup Range(b))

\* Zone of the union of two tz-aware indexes: kept when equal, else UTC.
UnionTz(a, b) == IF a = b THEN a ELSE "UTC"

combine_first_old_wins(self, other) ==
    MkFrame(UnionTz(self.tz, other.tz),
            IndexUnion(self.index, other.index),
            self.columns \cup other.columns,
            LAMBDA t, c : IF At(other, t, c) # NaN THEN At(other, t, c)
                          ELSE At(self, t, c))

\* DataFrame.combine_first: union of rows and columns; a cell of self where
\* it is not null, else the cell of other.
combine_first(self, other) ==
    MkFrame(UnionTz(self.tz, other.tz),
            IndexUnion(self.index, other.index),
            self.columns \cup other.columns,
            LAMBDA t, c : IF At(self, t, c) # NaN THEN At(self, t, c)
                          ELSE At(other, t, c))

sort_index_keeps_order(df) == df

\* DataFrame.sort_index
sort_index(df) ==
    [tz |-> df.tz, index |-> SortedSeq(Range(df.index)),
     columns |-> df.columns, cell |-> df.cell]

RowSlice_open_end(df, lo, hi) ==
    LET keep == {t \in Range(df.index) : lo <= t /\ t < hi}
    IN  [tz |-> df.tz, index |-> SelectSeq(df.index, LAMBDA t : t \in keep),
         columns |-> df.columns,
         cell |-> [p \in keep \X df.columns |-> df.cell[p]]]

\* df[start:end] on a sorted DatetimeIndex: the rows with start <= t <= end.
RowSlice(df, lo, hi) ==
    LET keep == {t \in Range(df.index) : lo <= t /\ t <= hi}
    IN  [tz |-> df.tz, index |-> SelectSeq(df.index, LAMBDA t : t \in keep),
         columns |-> df.columns,
         cell |-> [p \in keep \X df.columns |-> df.cell[p]]]

\* df[existing]: restriction to some of the columns.
ColSelect(df, cols) ==
    [tz |-> df.tz, index |-> df.index, columns |-> cols,
     cell |-> [p \in Range(df.index) \X cols |-> df.cell[p]]]

-----------------------------------------------------------------------------
(* CacheStore *)

\* No data.parquet in the item's directory.
NoFile == [absent |-> TRUE]

\* A file whose bytes pd.read_parquet / json.loads cannot read.
Corrupt == [corrupt |-> TRUE]

\* A file whose bytes are not all written yet; it cannot be read either.
Partial == [partial |-> TRUE]

\* The path holds a readable frame.
IsFrame(f) == f \notin {NoFile, Corrupt, Partial}

\* CacheStore._slice
_slice(df, start, end) ==
    LET s  == IF start.tz = "naive" THEN tz_localize(start, df.tz) ELSE start
        e0 == IF end.tz = "naive" THEN tz_localize(end, df.tz) ELSE end
        \* a midnight end is extended by one day minus one second: on the
        \* hourly grid that is the last hour of the day
        e  == IF HourOf(e0) = 0
              THEN [e0 EXCEPT !.wall = e0.wall + HoursPerDay - 1]
              ELSE e0
    IN  RowSlice(df, Instant(s), Instant(e))

\* CacheStore.read; columns is a set of column names, {} for None or an
\* empty list (both are falsy in "if columns:").
read(f, start, end, columns) ==
    IF ~IsFrame(f) THEN EmptyFrame
    ELSE IF IsEmpty(f) THEN EmptyFrame
    ELSE LET df == _slice(f, start, end)
             existing == columns \cap df.columns
         IN  IF columns # {}
             THEN IF existing = {} THEN EmptyFrame
                  ELSE ColSelect(df, existing)
             ELSE df

AfterRead_keeps(f) == f

\* CacheStore.read: the data file after the call; a file that cannot be
\* read is removed.
AfterRead(f) == IF f \in {Corrupt, Partial} THEN NoFile ELSE f

write_overwrites(f, df) ==
    IF IsEmpty(df) THEN f ELSE sort_index(df)

\* CacheStore.write: the content of the data file after write(df).
write(f, df) ==
    IF IsEmpty(df) THEN f
    ELSE LET existing == IF IsFrame(f) THEN f ELSE EmptyFrame
         IN  IF ~IsEmpty(existing)
             THEN sort_index(combine_first(df, existing))
             ELSE sort_index(df)

-----------------------------------------------------------------------------
(* Gap detection *)

\* _DEFAULT_RECENT_TTL_HOURS
RecentTtlHours == 48

DateRange(start, end) == [start |-> start, end |-> end]

\* The instant of a request bound: a naive bound is localized to UTC, an
\* aware one converted to UTC.
ToUtc(ts) ==
    IF ts.tz = "naive" THEN Instant(tz_localize(ts, "UTC"))
    ELSE Instant(tz_convert(ts, "UTC"))

\* _to_naive_date: the date, in UTC, of an instant, as a naive timestamp.
_to_naive_date(t) == Ts((t \div HoursPerDay) * HoursPerDay, "naive")

RECURSIVE InsertByStart(_, _)
\* Insert g after the entries whose start is not later (stable order).
InsertByStart(sorted, g) ==
    IF sorted = << >> THEN <<g>>
    ELSE IF Head(sorted).start.wall <= g.start.wall
         THEN <<Head(sorted)>> \o InsertByStart(Tail(sorted), g)
         ELSE <<g>> \o sorted

RECURSIVE SortByStart(_)
\* sorted(gaps, key=lambda g: g.start)
SortByStart(gs) ==
    IF gs = << >> THEN << >>
    ELSE InsertByStart(SortByStart(SubSeq(gs, 1, Len(gs) - 1)), gs[Len(gs)])

RECURSIVE MergeInto(_, _)
\* The loop of _merge_overlapping over the sorted gaps still to visit.
MergeInto(merged, rest) ==
    IF rest = << >> THEN merged
    ELSE LET gap  == Head(rest)
             prev == merged[Len(merged)]
         IN  IF gap.start.wall <= prev.end.wall + HoursPerDay
             THEN MergeInto(
                    [merged EXCEPT ![Len(merged)] =
                        DateRange(prev.start,
                                  IF prev.end.wall >= gap.end.wall
                                  THEN prev.end ELSE gap.end)],
                    Tail(rest))
             ELSE MergeInto(Append(merged, gap), Tail(rest))

\* _merge_overlapping
_merge_overlapping(gs) ==
    IF gs = << >> THEN << >>
    ELSE LET sorted_gaps == SortByStart(gs)
         IN  MergeInto(<<Head(sorted_gaps)>>, Tail(sorted_gaps))

EffectiveIndex_any(df, columns) ==
    IF columns = {} THEN Range(df.index)
    ELSE {t \in Range(df.index) : \E c \in columns : df.cell[<<t, c>>] # NaN}

\* The rows of cached_df that find_gaps counts as covered: all rows when no
\* columns are requested, else the rows where every requested column has a
\* value.
EffectiveIndex(df, columns) ==
    IF columns = {} THEN Range(df.index)
    ELSE {t \in Range(df.index) : \A c \in columns : df.cell[<<t, c>>] # NaN}

\* The gap before the cached rows.
PreGap(start, end, cached_start) ==
    LET start_utc == ToUtc(start)
        end_utc == ToUtc(end)
        gap_end == Min(cached_start - 1, end_utc)
    IN  IF start_utc < cached_start /\ gap_end >= start_utc
        THEN <<DateRange(start, _to_naive_date(gap_end))>>
        ELSE << >>

\* The gap after the cached rows.
PostGap(start, end, cached_end) ==
    LET start_utc == ToUtc(start)
        end_utc == ToUtc(end)
        gap_start == Max(cached_end + 1, start_utc)
    IN  IF end_utc > cached_end /\ gap_start <= end_utc
        THEN <<DateRange(_to_naive_date(gap_start), end)>>
        ELSE << >>

RecentGap_never(start, end, cached_end, cutoff) == << >>

\* The range of recent data that is fetched again.
RecentGap(start, end, cached_end, cutoff) ==
    LET start_utc == ToUtc(start)
        end_utc == ToUtc(end)
        recent_start == Max(cutoff, start_utc)
    IN  IF cached_end > cutoff /\ end_utc > cutoff /\ recent_start <= end_utc
        THEN <<DateRange(_to_naive_date(recent_start), end)>>
        ELSE << >>

\* CacheStore.find_gaps; clock is the instant of pd.Timestamp.now(tz="UTC").
find_gaps(df, start, end, columns, ttl, clock) ==
    LET cutoff == clock - ttl
        full == <<DateRange(start, end)>>
    IN  IF IsEmpty(df) THEN full
        ELSE IF columns # {} /\ columns \ df.columns # {} THEN full
        ELSE LET idx == EffectiveIndex(df, columns)
             IN  IF idx = {} THEN full
                 ELSE LET cached_start == SetMin(idx)
                          cached_end == SetMax(idx)
                      IN  _merge_overlapping(
                              PreGap(start, end, cached_start)
                              \o PostGap(start, end, cached_end)
                              \o RecentGap(start, end, cached_end, cutoff))

-----------------------------------------------------------------------------
(* The transport and the server behind it *)

\* CHUNK_SIZE_DAYS
CHUNK_SIZE_DAYS == 21

\* Geo ids and the geo_name the server gives each.
ServerGeos == {"3", "1", "8826"}
GeoName(g) ==
    IF g = "3" THEN "Espana" ELSE IF g = "1" THEN "Portugal" ELSE "Alemania"

\* The geos of a response to a request without geo_ids[].
DefaultGeos == {"3", "1"}

HistDays == 0 .. MaxHistDay

\* The instants the server has a value for: every hour of every day of
\* HistDays, days being days of TIMEZONE (the API answers a request for
\* 2025-01-01 with values from 2025-01-01T00:00:00+01:00 on).
ServerInstants(start_date, end_date) ==
    {w - MadridOffset :
        w \in {d * HoursPerDay + h :
                  d \in {x \in HistDays : start_date <= x /\ x <= end_date},
                  h \in 0 .. HoursPerDay - 1}}

\* The value the server publishes for a geo at an instant.
ServerValue(t, name) ==
    1 + ((t + (IF name = "Espana" THEN 0 ELSE 1)) % MaxVal)

\* The (instant, geo) pairs of data["indicator"]["values"] in the response
\* to the request params.
ResponseValues(params) ==
    ServerInstants(params.start_date, params.end_date)
        \X (IF params.geo_ids = {} THEN DefaultGeos
            ELSE params.geo_ids \cap ServerGeos)

-----------------------------------------------------------------------------
(* IndicatorHandle.historical *)

\* strftime("%Y-%m-%d"): the day of a naive timestamp.
DayOf(ts) == ts.wall \div HoursPerDay

\* timestamp + timedelta(days=n)
PlusDays(ts, n) == [ts EXCEPT !.wall = ts.wall + n * HoursPerDay]

CacheCols_none(geo_ids, known) == {}

\* cache_cols: the columns whose coverage decides what is fetched.
CacheCols(geo_ids, known) ==
    IF geo_ids # {}
    THEN {IF g \in known THEN GeoName(g) ELSE g : g \in geo_ids}
    ELSE {GeoName(g) : g \in known}

\* read_cols: the columns read from the cache and selected in the result.
ReadCols(geo_ids, known) ==
    IF geo_ids # {} THEN CacheCols(geo_ids, known) ELSE {}

ChunkEnd_whole_gap(cur, gap_end) == gap_end

\* end of the chunk that starts at cur in a sub-range ending at gap_end
ChunkEnd(cur, gap_end) ==
    IF PlusDays(cur, CHUNK_SIZE_DAYS).wall <= gap_end.wall
    THEN PlusDays(cur, CHUNK_SIZE_DAYS) ELSE gap_end

\* The request parameters of the chunk [cur, chunk_end]: base_params with
\* the geo filter and the aggregation options that are set, and the dates.
ChunkParams(cur, chunk_end, geo_ids, options) ==
    [start_date |-> DayOf(cur), end_date |-> DayOf(chunk_end),
     geo_ids |-> geo_ids, options |-> options]

RECURSIVE FirstRunnable(_, _)
\* The first sub-range from position i on whose while loop runs at least
\* once (start <= end); 0 if there is none.
FirstRunnable(gs, i) ==
    IF i > Len(gs) THEN 0
    ELSE IF gs[i].start.wall <= gs[i].end.wall THEN i
    ELSE FirstRunnable(gs, i + 1)

\* The (instant, geo) pairs of all accumulated responses.
AllPairs(values) == UNION {ResponseValues(values[i]) : i \in DOMAIN values}

\* _enrich_geo_map: the geo ids known after learning those of the values.
_enrich_geo_map(known, values) ==
    known \cup {q[2] : q \in AllPairs(values)}

\* resolve_geo on a handle whose metadata lists the geos: an id is returned
\* as it is, a name is looked up in the handle's geos, and a name that is
\* not there raises.  References by name are whole names.
resolve_geo(handle_geos, ref) ==
    IF ref \in ServerGeos THEN ref
    ELSE IF \E g \in handle_geos : GeoName(g) = ref
         THEN CHOOSE g \in handle_geos : GeoName(g) = ref
         ELSE "ValueError"

\* _to_wide: one row per instant, one column per geo_name, in TIMEZONE.
_to_wide(values) ==
    LET pairs == AllPairs(values)
    IN  IF pairs = {} THEN EmptyFrame
        ELSE MkFrame(TIMEZONE, SortedSeq({q[1] : q \in pairs}),
                     {GeoName(q[2]) : q \in pairs},
                     LAMBDA t, c :
                         IF \E q \in pairs : q[1] = t /\ GeoName(q[2]) = c
                         THEN ServerValue(t, c) ELSE NaN)

\* result[start:end] with the request strings: bounds are read in the zone
\* of the index and a date-only end includes the whole day.
StrSlice(df, start, end) ==
    LET s == tz_localize(start, df.tz)
        e0 == tz_localize(end, df.tz)
        e == IF HourOf(e0) = 0
             THEN [e0 EXCEPT !.wall = e0.wall + HoursPerDay - 1] ELSE e0
    IN  RowSlice(df, Instant(s), Instant(e))

\* _finalize: a lone "value" column is renamed to the indicator id.
_finalize(df) ==
    IF IsEmpty(df) THEN df
    ELSE IF df.columns = {"value"}
         THEN [tz |-> df.tz, index |-> df.index, columns |-> {"600"},
               cell |-> [q \in Range(df.index) \X {"600"} |->
                            df.cell[<<q[1], "value">>]]]
         ELSE df

\* The frame historical returns after fetching.
FetchResult(use_cache, cdf, new_wide, start, end, read_cols) ==
    LET combined ==
            IF use_cache /\ ~IsEmpty(cdf) /\ ~IsEmpty(new_wide)
            THEN StrSlice(sort_index(combine_first(new_wide, cdf)), start, end)
            ELSE IF ~IsEmpty(new_wide) THEN new_wide
            ELSE IF use_cache THEN cdf
            ELSE EmptyFrame
        existing == read_cols \cap combined.columns
        selected ==
            IF read_cols # {} /\ ~IsEmpty(combined) /\ existing # {}
            THEN ColSelect(combined, existing) ELSE combined
    IN  _finalize(selected)

\* historical up to the fetch loop: build the column sets, read the cache,
\* plan the sub-ranges; return the cached frame when nothing is missing.
\* The aggregation options of historical that are set (not None).
AggOptions == {"time_agg", "geo_agg", "time_trunc", "geo_trunc"}

\* use_cache = cache.config.enabled and not time_agg and not geo_agg
UseCache(options) ==
    enabled /\ "time_agg" \notin options /\ "geo_agg" \notin options

Historical(start, end, geo_ids, options) ==
    /\ pc = "idle"
    /\ ncalls < MaxCalls
    /\ LET use == UseCache(options)
           cache_cols == CacheCols(geo_ids, meta_geos)
           read_cols == ReadCols(geo_ids, meta_geos)
           cdf == IF use THEN read(file, start, end, read_cols)
                  ELSE EmptyFrame
           gs == IF use
                 THEN find_gaps(cdf, start, end, cache_cols,
                                RecentTtlHours, now)
                 ELSE <<DateRange(start, end)>>
           first == FirstRunnable(gs, 1)
       IN  /\ req' = [start |-> start, end |-> end, columns |-> cache_cols,
                      read_cols |-> read_cols, geo_ids |-> geo_ids,
                      options |-> options]
           /\ cached_df' = cdf
           /\ gaps' = gs
           /\ before' = file
           /\ calls' = << >>
           /\ all_values' = << >>
           /\ IF use /\ gs = << >>
              THEN /\ pc' = "done"
                   /\ result' = _finalize(cdf)
                   /\ UNCHANGED <<gi, current>>
              ELSE /\ result' = EmptyFrame
                   /\ IF first = 0
                      THEN pc' = "fetched" /\ UNCHANGED <<gi, current>>
                      ELSE /\ pc' = "fetch"
                           /\ gi' = first
                           /\ current' = gs[first].start
    /\ file' = IF UseCache(options) THEN AfterRead(file) ELSE file
    /\ UNCHANGED <<op, nwrites, now, enabled, meta_geos, lastcall, ncalls>>
    /\ UNCHANGED <<fsVars, regVars, extVars>>

\* historical without aggregation options.
HistCall(start, end, geo_ids) == Historical(start, end, geo_ids, {})

\* One iteration of the while loop: request a chunk, keep its values, move
\* to the day after the chunk.
HistFetchChunk ==
    /\ pc = "fetch"
    /\ LET gap_end == gaps[gi].end
           chunk_end == ChunkEnd(current, gap_end)
           params == ChunkParams(current, chunk_end, req.geo_ids,
                                req.options)
           next == PlusDays(chunk_end, 1)
           later == FirstRunnable(gaps, gi + 1)
       IN  /\ calls' = Append(calls, params)
           /\ all_values' = Append(all_values, params)
           /\ IF next.wall <= gap_end.wall
              THEN current' = next /\ UNCHANGED <<gi, pc>>
              ELSE IF later # 0
                   THEN gi' = later /\ current' = gaps[later].start
                        /\ UNCHANGED pc
                   ELSE pc' = "fetched" /\ UNCHANGED <<gi, current>>
    /\ UNCHANGED <<file, op, nwrites, now, req, cached_df, gaps, enabled,
                   meta_geos, before, result, lastcall, ncalls>>
    /\ UNCHANGED <<fsVars, regVars, extVars>>

\* The frame new_wide is persisted: the cache is enabled and there is data.
Persists(new_wide) == UseCache(req.options) /\ ~IsEmpty(new_wide)

HistFinish_in_place ==
    /\ pc = "fetched"
    /\ LET new_wide == _to_wide(all_values)
       IN  /\ meta_geos' = _enrich_geo_map(meta_geos, all_values)
           /\ IF Persists(new_wide)
              THEN /\ file' = Partial
                   /\ pc' = "temp"
                   /\ UNCHANGED <<tmp, result>>
              ELSE /\ pc' = "done"
                   /\ result' = FetchResult(UseCache(req.options), cached_df, new_wide,
                                            req.start, req.end, req.read_cols)
                   /\ UNCHANGED <<tmp, file>>
    /\ UNCHANGED <<op, nwrites, now, req, cached_df, gaps, enabled, before,
                   gi, current, all_values, calls, lastcall, ncalls, seen>>
    /\ UNCHANGED <<regVars, extVars>>

\* historical after the fetch loop: learn geos, pivot; with data to persist,
\* write() reads the existing file, merges, and _atomic_write_parquet
\* creates the temp file; else the result is built and returned.
HistFinish ==
    /\ pc = "fetched"
    /\ LET new_wide == _to_wide(all_values)
       IN  /\ meta_geos' = _enrich_geo_map(meta_geos, all_values)
           /\ IF Persists(new_wide)
              THEN /\ tmp' = Partial
                   /\ pc' = "temp"
                   /\ UNCHANGED result
              ELSE /\ pc' = "done"
                   /\ result' = FetchResult(UseCache(req.options), cached_df, new_wide,
                                            req.start, req.end, req.read_cols)
                   /\ UNCHANGED tmp
    /\ UNCHANGED <<file, op, nwrites, now, req, cached_df, gaps, enabled,
                   before, gi, current, all_values, calls, lastcall, ncalls,
                   seen>>
    /\ UNCHANGED <<regVars, extVars>>

HistTempWritten_in_place ==
    /\ pc = "temp"
    /\ file' = write(file, _to_wide(all_values))
    /\ tmp' = file'
    /\ pc' = "rename"
    /\ UNCHANGED <<op, nwrites, now, req, cached_df, gaps, enabled,
                   meta_geos, before, gi, current, all_values, calls, result,
                   lastcall, ncalls, seen>>
    /\ UNCHANGED <<regVars, extVars>>

\* df.to_parquet(tmp_path) has written the merges frame to the temp file.
HistTempWritten ==
    /\ pc = "temp"
    /\ tmp' = write(file, _to_wide(all_values))
    /\ pc' = "rename"
    /\ UNCHANGED <<file, op, nwrites, now, req, cached_df, gaps, enabled,
                   meta_geos, before, gi, current, all_values, calls, result,
                   lastcall, ncalls, seen>>
    /\ UNCHANGED <<regVars, extVars>>

\* Path(tmp_path).rename(path), then the result is built and returned.
HistRename ==
    /\ pc = "rename"
    /\ file' = tmp
    /\ tmp' = NoFile
    /\ result' = FetchResult(UseCache(req.options), cached_df, _to_wide(all_values),
                             req.start, req.end, req.read_cols)
    /\ pc' = "done"
    /\ UNCHANGED <<op, nwrites, now, req, cached_df, gaps, enabled,
                   meta_geos, before, gi, current, all_values, calls,
                   lastcall, ncalls, seen>>
    /\ UNCHANGED <<regVars, extVars>>

HistFetchFail_writes_chunks ==
    /\ pc = "fetch"
    /\ LET chunk_end == ChunkEnd(current, gaps[gi].end)
       IN  calls' = Append(calls, ChunkParams(current, chunk_end, req.geo_ids,
                                req.options))
    /\ pc' = "raised"
    /\ file' = IF enabled /\ ~IsEmpty(_to_wide(all_values))
               THEN write(file, _to_wide(all_values)) ELSE file
    /\ UNCHANGED <<op, nwrites, now, req, cached_df, gaps, enabled,
                   meta_geos, before, gi, current, all_values, result,
                   lastcall, ncalls>>
    /\ UNCHANGED <<fsVars, regVars, extVars>>

\* The transport call of a chunk fails (after the client's retries): the
\* exception leaves historical; nothing after the loop runs.
HistFetchFail ==
    /\ pc = "fetch"
    /\ LET chunk_end == ChunkEnd(current, gaps[gi].end)
       IN  calls' = Append(calls, ChunkParams(current, chunk_end, req.geo_ids,
                                req.options))
    /\ pc' = "raised"
    /\ UNCHANGED <<file, op, nwrites, now, req, cached_df, gaps, enabled,
                   meta_geos, before, gi, current, all_values, result,
                   lastcall, ncalls>>
    /\ UNCHANGED <<fsVars, regVars, extVars>>

\* The call has returned or raised; the handle is ready for the next call.
HistReturn ==
    /\ pc \in {"done", "raised"}
    /\ lastcall' = [kind |-> IF pc = "done" THEN "historical" ELSE "raised",
                    req |-> req, calls |-> calls,
                    result |-> result, before |-> before]
    /\ ncalls' = ncalls + 1
    /\ pc' = "idle"
    /\ UNCHANGED <<file, op, nwrites, now, req, cached_df, gaps, enabled,
                   meta_geos, before, gi, current, all_values, calls, result>>
    /\ UNCHANGED <<fsVars, regVars, extVars>>

\* Something outside the library overwrites the data file with bytes that
\* are not parquet, between two calls.
CorruptFile ==
    /\ pc = "idle"
    /\ file # Corrupt
    /\ file' = Corrupt
    /\ UNCHANGED <<op, nwrites, now, req, cached_df, gaps, pc, enabled,
                   meta_geos, before, gi, current, all_values, calls, result,
                   lastcall, ncalls>>
    /\ UNCHANGED <<fsVars, regVars, extVars>>

\* No call has completed on the handle.
NoCall == [kind |-> "none"]

\* Another reader opens the data file while the call is running.
ConcurrentRead ==
    /\ pc \notin {"idle", "killed"}
    /\ seen' = [at |-> ncalls, pc |-> pc, file |-> file]
    /\ file' = AfterRead(file)
    /\ UNCHANGED <<op, nwrites, now, req, cached_df, gaps, pc, enabled,
                   meta_geos, before, gi, current, all_values, calls, result,
                   lastcall, ncalls, tmp>>
    /\ UNCHANGED <<regVars, extVars>>

\* The process is killed inside _atomic_write_parquet, before the rename.
Interrupt ==
    /\ pc \in {"temp", "rename"}
    /\ pc' = "killed"
    /\ UNCHANGED <<file, op, nwrites, now, req, cached_df, gaps, enabled,
                   meta_geos, before, gi, current, all_values, calls, result,
                   lastcall, ncalls>>
    /\ UNCHANGED <<fsVars, regVars, extVars>>

\* A new process gets a handle; the temp file of the killed one stays.
Restart ==
    /\ pc = "killed"
    /\ pc' = "idle"
    /\ meta_geos' \in {{}, DefaultGeos}
    /\ lastcall' = NoCall
    /\ ncalls' = ncalls + 1
    /\ UNCHANGED <<file, op, nwrites, now, req, cached_df, gaps, enabled,
                   before, gi, current, all_values, calls, result>>
    /\ UNCHANGED <<fsVars, regVars, extVars>>

-----------------------------------------------------------------------------
(* Inputs of the store specification *)

StoreHours == 0 .. MaxStoreHour
Val == 1 .. MaxVal
StoreCols == {"Espana", "Portugal"}

RECURSIVE Reverse(_)
Reverse(s) == IF s = << >> THEN << >> ELSE Reverse(Tail(s)) \o <<Head(s)>>

\* Row orders of an input frame: increasing or decreasing labels.
IndexOrders(S) == {SortedSeq(S), Reverse(SortedSeq(S))}

\* The frames handed to write(): any rows, any columns, at most MaxHoles
\* holes, one value in the cells that are not holes.  All are in TIMEZONE,
\* the zone to_dataframe converts every response to.
HoleSets(cells) == {h \in SUBSET cells : Cardinality(h) <= MaxHoles}

InputFrames ==
    UNION { UNION { { MkFrame(TIMEZONE, idx, cols,
                        LAMBDA t, c : IF <<t, c>> \in holes THEN NaN ELSE v)
                      : idx \in IndexOrders(S), v \in Val,
                        holes \in HoleSets(S \X cols) }
                    : cols \in SUBSET StoreCols }
            : S \in SUBSET StoreHours }

\* Bounds of a read: start <= end, both naive or both in TIMEZONE, around
\* the stored rows.
ReadBounds ==
    UNION { UNION { {<<Ts(w1, tz), Ts(w2, tz)>> :
                        w2 \in w1 .. MaxStoreHour + MadridOffset}
                    : w1 \in 0 .. MaxStoreHour + MadridOffset }
            : tz \in {"naive", TIMEZONE} }

ReadColumns == {{}, {"Espana"}, StoreCols}

-----------------------------------------------------------------------------
(* The store specification *)

NoOp == [kind |-> "none"]
NoReq == [start |-> Ts(0, "naive"), end |-> Ts(0, "naive"), columns |-> {}]

\* The variables of a call, when no call is in progress.
PlanIdle ==
    /\ now = 0
    /\ req = NoReq
    /\ cached_df = EmptyFrame
    /\ gaps = << >>
    /\ pc = "idle"

StoreFresh ==
    /\ file = NoFile
    /\ op = NoOp
    /\ nwrites = 0

\* The variables of a handle on which historical has not been called.
CallIdle ==
    /\ enabled = TRUE
    /\ meta_geos = {}
    /\ before = NoFile
    /\ gi = 0
    /\ current = Ts(0, "naive")
    /\ all_values = << >>
    /\ calls = << >>
    /\ result = EmptyFrame
    /\ lastcall = NoCall
    /\ ncalls = 0

NoSeen == [at |-> -1]

\* No write in progress, no reader yet.
FsIdle == tmp = NoFile /\ seen = NoSeen

\* No registry, catalogue or metadata file yet.
NoOut == [kind |-> "none"]

RegFresh ==
    /\ geos = NoFile
    /\ catalog = NoFile
    /\ meta = NoFile
    /\ merges = << >>
    /\ net = << >>
    /\ out = NoOut

\* No archive has been downloaded and no download is in progress.
NoArc == [pc |-> "none"]
\* No extractor, client call or purge yet.
NoAux == [pc |-> "none"]
AuxIdle ==
    /\ zip = NoAux /\ http = NoAux /\ tree = NoAux /\ wr = NoAux /\ ws = NoAux
    /\ legacy = NoAux
ExtIdle == bundles = << >> /\ arc = NoArc /\ AuxIdle

Init == StoreFresh /\ PlanIdle /\ CallIdle /\ FsIdle /\ RegFresh /\ ExtIdle

Write(df) ==
    /\ nwrites < MaxWrites
    /\ file' = write(file, df)
    /\ op' = [kind |-> "write", before |-> file, frame |-> df]
    /\ nwrites' = nwrites + 1
    /\ UNCHANGED planVars
    /\ UNCHANGED callVars
    /\ UNCHANGED <<fsVars, regVars, extVars>>

Read(start, end, columns) ==
    /\ op' = [kind |-> "read", before |-> file, start |-> start, end |-> end,
              columns |-> columns,
              result |-> read(file, start, end, columns)]
    /\ file' = AfterRead(file)
    /\ UNCHANGED nwrites
    /\ UNCHANGED planVars
    /\ UNCHANGED callVars
    /\ UNCHANGED <<fsVars, regVars, extVars>>

Next ==
    \/ \E df \in InputFrames : Write(df)
    \/ \E b \in ReadBounds, columns \in ReadColumns :
          Read(b[1], b[2], columns)

Spec == Init /\ [][Next]_vars

-----------------------------------------------------------------------------
(* The planner specification: find_gaps applied to bounded inputs *)

\* Wall-clock hours used for the bounds of frames and requests: the first
\* and the last hour of each day.
GapWalls == {d * HoursPerDay + h : d \in 0 .. MaxGapDay, h \in {0, 23}}

GapCols == {"Espana", "Portugal"}

\* Cached frames: hourly rows from wall hour a to wall hour b of the frame's
\* zone; Espana has a value in every row; Portugal has values everywhere
\* ("dense"), nowhere ("holes"), only in the first row ("first"), or is not
\* a column ("absent").
GapFrame(tz, a, b, portugal) ==
    MkFrame(tz, [i \in 1 .. b - a + 1 |-> a + i - 1 - UtcOffset(tz)],
            IF portugal = "absent" THEN {"Espana"} ELSE GapCols,
            LAMBDA t, c :
                IF c = "Espana" \/ portugal = "dense" THEN 1 + (t % MaxVal)
                ELSE IF portugal = "first" /\ t = a - UtcOffset(tz)
                     THEN 1 + (t % MaxVal) ELSE NaN)

GapFrames ==
    {EmptyFrame} \cup
    UNION { UNION { {GapFrame(tz, a, b, p) :
                        tz \in {"UTC", TIMEZONE},
                        p \in {"dense", "holes", "first", "absent"}}
                    : b \in {w \in GapWalls : w >= a} }
            : a \in GapWalls }

\* Requests: naive bounds with start <= end, as pd.to_datetime gives for a
\* date or a date with a time of day.
GapRequests ==
    UNION { UNION { {[start |-> Ts(s, "naive"), end |-> Ts(e, "naive"),
                      columns |-> cols]
                        : cols \in {{}, {"Espana"}, {"Portugal"},
                                    {"Espana", "Portugal"}, {"Alemania"}}}
                    : e \in {w \in GapWalls : w >= s} }
            : s \in GapWalls }

\* The clock: the first or last hour of a day from which the cutoff falls
\* on day 0 or later, or long after every day of the model.
FarFuture == (MaxGapDay + 3) * HoursPerDay

Clocks ==
    {d * HoursPerDay + h : d \in 2 .. MaxGapDay, h \in {0, 23}}
        \cup {FarFuture}

InitGaps ==
    /\ StoreFresh
    /\ CallIdle
    /\ FsIdle
    /\ RegFresh
    /\ ExtIdle
    /\ now \in Clocks
    /\ req \in GapRequests
    /\ cached_df \in GapFrames
    /\ gaps = << >>
    /\ pc = "call"

FindGaps ==
    /\ pc = "call"
    /\ gaps' = find_gaps(cached_df, req.start, req.end, req.columns,
                         RecentTtlHours, now)
    /\ pc' = "planned"
    /\ UNCHANGED <<now, req, cached_df>>
    /\ UNCHANGED storeVars
    /\ UNCHANGED callVars
    /\ UNCHANGED <<fsVars, regVars, extVars>>

NextGaps == FindGaps

SpecGaps == InitGaps /\ [][NextGaps]_vars

-----------------------------------------------------------------------------
(* The fetch specification: historical calls on one handle *)

\* Request bounds: a date, or the last hour of a date as end.
HistRequests ==
    UNION { UNION { {<<Ts(d1 * HoursPerDay, "naive"),
                       Ts(d2 * HoursPerDay + h, "naive")>> : h \in {0, 23}}
                    : d2 \in {d \in HistDays : d >= d1} }
            : d1 \in HistDays }

HistGeoFilters == {{}, {"8826"}}

\* All data of this specification is older than the recency window.
HistNow == (MaxHistDay + 3) * HoursPerDay

InitHist ==
    /\ StoreFresh
    /\ FsIdle
    /\ RegFresh
    /\ ExtIdle
    /\ now = HistNow
    /\ req = NoReq
    /\ cached_df = EmptyFrame
    /\ gaps = << >>
    /\ pc = "idle"
    /\ enabled = TRUE
    /\ meta_geos \in {{}, DefaultGeos}
    /\ before = NoFile
    /\ gi = 0
    /\ current = Ts(0, "naive")
    /\ all_values = << >>
    /\ calls = << >>
    /\ result = EmptyFrame
    /\ lastcall = NoCall
    /\ ncalls = 0

NextHist ==
    \/ \E r \in HistRequests, geo_ids \in HistGeoFilters :
          HistCall(r[1], r[2], geo_ids)
    \/ HistFetchChunk
    \/ HistFetchFail
    \/ HistFinish
    \/ HistTempWritten
    \/ HistRename
    \/ HistReturn

SpecHist == InitHist /\ [][NextHist]_vars

-----------------------------------------------------------------------------
(* The aggregation specification: historical calls with and without
   aggregation options on one handle.  The values of an aggregated response
   are taken to be those of the plain one. *)

\* Whole days as request bounds.
AggRequests ==
    UNION { {<<Ts(d1 * HoursPerDay, "naive"), Ts(d2 * HoursPerDay, "naive")>>
                : d2 \in {d \in HistDays : d >= d1} }
            : d1 \in HistDays }

\* No option, each option alone, and time_agg with time_trunc.
AggChoices ==
    {{}} \cup {{o} : o \in AggOptions} \cup {{"time_agg", "time_trunc"}}

NextAgg ==
    \/ \E r \in AggRequests, options \in AggChoices :
          Historical(r[1], r[2], {}, options)
    \/ HistFetchChunk
    \/ HistFetchFail
    \/ HistFinish
    \/ HistTempWritten
    \/ HistRename
    \/ HistReturn
    \/ CorruptFile

SpecAgg == InitHist /\ [][NextAgg]_vars

-----------------------------------------------------------------------------
(* The concurrency specification: historical calls, a concurrent reader of
   the data file, and kills of the writing process *)

NextConc ==
    \/ NextHist
    \/ ConcurrentRead
    \/ Interrupt
    \/ Restart

SpecConc == InitHist /\ [][NextConc]_vars

-----------------------------------------------------------------------------
(* The global geo registry, geos.json.  A registry map is a set of
   <<geo_id, geo_name>> pairs with one pair per id. *)

Ids(m) == {p[1] : p \in m}

\* dict.update: the pairs of g, and the pairs of e whose id g does not have.
update_existing_wins(e, g) == e \cup {p \in g : p[1] \notin Ids(e)}
update(e, g) == g \cup {p \in e : p[1] \notin Ids(g)}

read_geos(f) == IF f \in {NoFile, Corrupt} THEN {} ELSE f.geos

merge_geos(f, g, t) ==
    IF g = {} THEN f
    ELSE [updated_at |-> t, geos |-> update(read_geos(f), g)]

\* The maps handed to merge_geos.
RegistryPairs ==
    {<<"3", "Spain">>, <<"3", "España">>,
     <<"8828", "Países Bajos">>, <<"8828", "Netherlands">>}

GeoMaps ==
    {m \in SUBSET RegistryPairs :
        \A p \in m : \A q \in m : p[1] = q[1] => p = q}

MergeGeos(g) ==
    /\ Len(merges) < MaxMerges
    /\ geos' = merge_geos(geos, g, now)
    /\ merges' = Append(merges, g)
    /\ UNCHANGED <<storeVars, planVars, callVars, fsVars>>
    /\ UNCHANGED <<catalog, meta, net, out>>
    /\ UNCHANGED extVars

NextGeos == \E g \in GeoMaps : MergeGeos(g)

SpecGeos == Init /\ [][NextGeos]_vars

-----------------------------------------------------------------------------
(* The catalogue and metadata records of the store *)

_DEFAULT_CATALOG_TTL_HOURS == 24
_DEFAULT_META_TTL_DAYS == 7

None == [none |-> TRUE]

\* Timestamps are written with isoformat and read back with fromisoformat,
\* which returns the datetime that was written; the model keeps the hour.
read_catalog_never_stale(f, t) ==
    IF f \in {NoFile, Corrupt} THEN None ELSE [items |-> f.items]
read_catalog(f, t) ==
    IF f \in {NoFile, Corrupt} THEN None
    ELSE IF t - f.updated_at > _DEFAULT_CATALOG_TTL_HOURS THEN None
    ELSE [items |-> f.items]

write_catalog(items, t) == [updated_at |-> t, items |-> items]

read_meta(f, t) ==
    IF f \in {NoFile, Corrupt} THEN None
    ELSE IF t - f.cached_at > _DEFAULT_META_TTL_DAYS * HoursPerDay THEN None
    ELSE f

write_meta(m, t) ==
    [id |-> m.id, name |-> m.name, geos |-> m.geos, cached_at |-> t]

-----------------------------------------------------------------------------
(* IndicatorsManager *)

\* GET /indicators
ServerCatalog ==
    {[id |-> 600, name |-> "PVPC T. Defecto", short_name |-> "PVPC",
      description |-> [html |-> TRUE, text |-> "Precio voluntario"]],
     [id |-> 10035, name |-> "Generación solar fotovoltaica",
      short_name |-> "Solar FV",
      description |-> [html |-> TRUE,
                       text |-> "Generación solar fotovoltaica"]]}

\* GET /indicators/600, without the values
ServerIndicator ==
    [id |-> 600, name |-> "PVPC T. Defecto",
     geos |-> {<<g, GeoName(g)>> : g \in DefaultGeos}]

_html_to_text(d) == [html |-> FALSE, text |-> d.text]

\* The rows of the frame list() builds from a response.
ListRows(indicators) ==
    {[i EXCEPT !.description = _html_to_text(@)] : i \in indicators}

\* The lowercase words of a name; a query is one word.
NameWords(name) ==
    CASE name = "PVPC T. Defecto" -> {"pvpc", "t.", "defecto"}
      [] name = "Generación solar fotovoltaica" ->
             {"generación", "solar", "fotovoltaica"}
      [] OTHER -> {}

Queries == {"solar", "pvpc"}

\* df[df["name"].str.contains(query, case=False)]
SearchRows(rows, q) == {r \in rows : q \in NameWords(r.name)}

List ==
    /\ pc = "idle"
    /\ Len(net) < MaxManagerCalls
    /\ net' = Append(net, "indicators")
    /\ UNCHANGED <<geos, catalog, meta, merges>>
    /\ UNCHANGED extVars
    /\ out' = [kind |-> "list",
               fresh |-> read_catalog(catalog, now) # None,
               fetched |-> TRUE,
               stored |-> read_catalog(catalog', now) # None,
               rows |-> ListRows(ServerCatalog)]
    /\ UNCHANGED <<storeVars, planVars, callVars, fsVars>>

Search(q) ==
    /\ pc = "idle"
    /\ Len(net) < MaxManagerCalls
    /\ net' = Append(net, "indicators")
    /\ UNCHANGED <<geos, catalog, meta, merges>>
    /\ UNCHANGED extVars
    /\ out' = [kind |-> "search",
               fresh |-> read_catalog(catalog, now) # None,
               fetched |-> TRUE,
               stored |-> read_catalog(catalog', now) # None,
               rows |-> SearchRows(ListRows(ServerCatalog), q)]
    /\ UNCHANGED <<storeVars, planVars, callVars, fsVars>>

Get ==
    /\ pc = "idle"
    /\ Len(net) < MaxManagerCalls
    /\ net' = Append(net, "indicators/600")
    /\ meta_geos' = Ids(ServerIndicator.geos)
    /\ UNCHANGED <<geos, catalog, meta, merges>>
    /\ UNCHANGED extVars
    /\ out' = [kind |-> "get",
               fresh |-> read_meta(meta, now) # None,
               fetched |-> TRUE,
               stored |-> read_meta(meta', now) # None,
               id |-> ServerIndicator.id,
               name |-> ServerIndicator.name]
    /\ UNCHANGED <<storeVars, planVars, fsVars>>
    /\ UNCHANGED <<enabled, before, gi, current, all_values, calls, result,
                   lastcall, ncalls>>

\* Direct calls on the store, and edits of its files from outside.
CatalogItems ==
    {{[id |-> i.id, name |-> i.name, short_name |-> i.short_name] :
         i \in ServerCatalog},
     {[id |-> 600, name |-> "Spot", short_name |-> "Spot"]}}

CatalogAges ==
    {_DEFAULT_CATALOG_TTL_HOURS - 1, _DEFAULT_CATALOG_TTL_HOURS,
     _DEFAULT_CATALOG_TTL_HOURS + 1}

MetaAges ==
    {_DEFAULT_META_TTL_DAYS * HoursPerDay,
     _DEFAULT_META_TTL_DAYS * HoursPerDay + 1}

WriteCatalog(items) ==
    /\ pc = "idle"
    /\ catalog' = write_catalog(items, now)
    /\ UNCHANGED <<storeVars, planVars, callVars, fsVars>>
    /\ UNCHANGED <<geos, meta, merges, net, out>>
    /\ UNCHANGED extVars

BackdateCatalog(age) ==
    /\ pc = "idle"
    /\ catalog \notin {NoFile, Corrupt}
    /\ catalog' = [catalog EXCEPT !.updated_at = now - age]
    /\ UNCHANGED <<storeVars, planVars, callVars, fsVars>>
    /\ UNCHANGED <<geos, meta, merges, net, out>>
    /\ UNCHANGED extVars

CorruptCatalog ==
    /\ pc = "idle"
    /\ catalog' = Corrupt
    /\ UNCHANGED <<storeVars, planVars, callVars, fsVars>>
    /\ UNCHANGED <<geos, meta, merges, net, out>>
    /\ UNCHANGED extVars

WriteMeta ==
    /\ pc = "idle"
    /\ meta' = write_meta(ServerIndicator, now)
    /\ UNCHANGED <<storeVars, planVars, callVars, fsVars>>
    /\ UNCHANGED <<geos, catalog, merges, net, out>>
    /\ UNCHANGED extVars

BackdateMeta(age) ==
    /\ pc = "idle"
    /\ meta \notin {NoFile, Corrupt}
    /\ meta' = [meta EXCEPT !.cached_at = now - age]
    /\ UNCHANGED <<storeVars, planVars, callVars, fsVars>>
    /\ UNCHANGED <<geos, catalog, merges, net, out>>
    /\ UNCHANGED extVars

CorruptMeta ==
    /\ pc = "idle"
    /\ meta' = Corrupt
    /\ UNCHANGED <<storeVars, planVars, callVars, fsVars>>
    /\ UNCHANGED <<geos, catalog, merges, net, out>>
    /\ UNCHANGED extVars

NextManager ==
    \/ List
    \/ \E q \in Queries : Search(q)
    \/ Get
    \/ \E items \in CatalogItems : WriteCatalog(items)
    \/ \E age \in CatalogAges : BackdateCatalog(age)
    \/ CorruptCatalog
    \/ WriteMeta
    \/ \E age \in MetaAges : BackdateMeta(age)
    \/ CorruptMeta

SpecManager == Init /\ [][NextManager]_vars

-----------------------------------------------------------------------------
(* Archives.  Dates are whole days counted from 2024-11-01 (day 0); month 0
   is November 2024.  A bundle directory is named {name}_{key}. *)

\* Days in a month of the calendar, leap days left out.
DaysInMonth(m) ==
    LET k == (m + 10) % 12
    IN  IF k = 1 THEN 28 ELSE IF k \in {3, 5, 8, 10} THEN 30 ELSE 31

RECURSIVE MonthStart(_)
MonthStart(m) == IF m = 0 THEN 0 ELSE MonthStart(m - 1) + DaysInMonth(m - 1)

\* strftime("%Y%m") of a day, as a month number.
MonthOf(d) ==
    CHOOSE m \in 0 .. MaxArcMonth + 2 :
        MonthStart(m) <= d /\ d < MonthStart(m + 1)

\* (current.replace(day=1) + timedelta(days=32)).replace(day=1)
NextMonthStart(d) == MonthStart(MonthOf(MonthStart(MonthOf(d)) + 32))

ArcKey(horizon, d) ==
    IF horizon = "M" THEN [month |-> MonthOf(d)] ELSE [day |-> d]

ArcChunkEnd(horizon, d, end_date) ==
    IF horizon = "M" THEN Min(NextMonthStart(d) - 1, end_date) ELSE d

\* archive_dir: {cache_dir}/archives/{id}/{name}_{key}
archive_dir(name, key) == [name |-> name, key |-> key]

DirFiles(dir) == IF dir \in DOMAIN bundles THEN bundles[dir] ELSE {}

\* archive_exists: the folder exists and holds something.
archive_exists(name, key) == DirFiles(archive_dir(name, key)) # {}

\* The name metadata["archive"]["download"]["name"] of a configure
\* response for the range [s, e]: the archive's name, or one that carries
\* the date of the request.
ArchiveName == <<"I90DIA">>
DownloadName(dated, s) == IF dated THEN <<"I90DIA", s>> ELSE ArchiveName

\* The files _write_content leaves in the folder, each as its path below
\* the folder: the members of the zip, those of a nested zip in the
\* sub-folder named after it, or the one spreadsheet {name}_{key}.xls.
BundleFiles(archive_type, nested, name, key) ==
    IF archive_type = "zip"
    THEN {<<"I90DIA.xls">>, <<"notes.txt">>}
            \cup (IF nested THEN {<<"detail", "I90DIA_detail.xls">>} ELSE {})
    ELSE {<<[name |-> name, key |-> key, ext |-> "xls"]>>}

\* f for f in cache_folder.iterdir() if f.is_file(): the files that lie in
\* the folder itself.
Listed(dir, fs) == {[dir |-> dir, file |-> f] : f \in {x \in fs : Len(x) = 1}}

Paths(dir) == Listed(dir, DirFiles(dir))

WithDir(dir, fs) ==
    [d \in DOMAIN bundles \cup {dir} |-> IF d = dir THEN fs ELSE bundles[d]]

\* What a failed _write_content may have left of the files it writes.
PartialFiles(archive_type) ==
    IF archive_type = "zip" THEN {{}, {<<"I90DIA.xls">>}} ELSE {{}}

\* configure(start=s, end=e) of the content written into dir: arc.asked
\* remembers for which range each bundle directory was filled.
Asked(dir, s, e) == [dir |-> dir, start |-> s, end |-> e]

ArcIdle == arc.pc \in {"idle", "returned", "raised"}

\* ArchivesManager.get / ArchiveHandle.download(start=, end=) up to the loop.
\* A call is made on a new handle or on the one of the previous call.
ArcCall(start_date, end_date, new_handle) ==
    /\ ArcIdle
    /\ arc.ncalls < MaxArcCalls
    /\ start_date <= end_date
    /\ arc' = [arc EXCEPT !.pc = "loop",
                          !.kind = "range",
                          !.name = IF new_handle THEN ArchiveName ELSE @,
                          !.start = start_date,
                          !.end = end_date,
                          !.current = start_date,
                          !.files = {},
                          !.calls = << >>,
                          !.visited = << >>,
                          !.skipped = {},
                          !.failed = {},
                          !.written = {},
                          !.hit = {},
                          !.before = bundles]
    /\ UNCHANGED bundles
    /\ UNCHANGED <<storeVars, planVars, callVars, fsVars, regVars, auxVars>>

ArcInLoop == arc.pc = "loop" /\ arc.current <= arc.end

ArcUnitKey == ArcKey(arc.horizon, arc.current)
ArcUnitEnd == ArcChunkEnd(arc.horizon, arc.current, arc.end)
ArcCached == enabled /\ archive_exists(arc.name, ArcUnitKey)

\* The unit's folder is there: its files are listed and the loop goes on.
ArcHit ==
    /\ ArcInLoop
    /\ ArcCached
    /\ arc' = [arc EXCEPT
                 !.files = @ \cup Paths(archive_dir(arc.name, ArcUnitKey)),
                 !.visited = Append(@, ArcUnitKey),
                 !.skipped = @ \cup {ArcUnitKey},
                 !.hit = @ \cup {archive_dir(arc.name, ArcUnitKey)},
                 !.current = ArcUnitEnd + 1]
    /\ UNCHANGED bundles
    /\ UNCHANGED <<storeVars, planVars, callVars, fsVars, regVars, auxVars>>

\* configure and download succeed and the content is written.
ArcFetch ==
    /\ ArcInLoop
    /\ ~ArcCached
    /\ LET name == DownloadName(arc.dated, arc.current)
           dir == archive_dir(name, ArcUnitKey)
           fs == DirFiles(dir)
                     \cup BundleFiles(arc.archive_type, arc.nested, name,
                                      ArcUnitKey)
       IN  /\ bundles' = WithDir(dir, fs)
           /\ arc' = [arc EXCEPT
                        !.name = name,
                        !.files = @ \cup Listed(dir, fs),
                        !.written = @ \cup {dir},
                        !.asked = @ \cup {Asked(dir, arc.current, ArcUnitEnd)},
                        !.visited = Append(@, ArcUnitKey),
                        !.calls = Append(@, [start |-> arc.current,
                                             end |-> ArcUnitEnd]),
                        !.current = ArcUnitEnd + 1]
    /\ UNCHANGED <<storeVars, planVars, callVars, fsVars, regVars, auxVars>>

\* configure or download raises: the warning is logged and the loop goes
\* on.  A failure of download comes after configure has set the name.
ArcFetchFail(configured) ==
    /\ ArcInLoop
    /\ ~ArcCached
    /\ arc' = [arc EXCEPT
                 !.name = IF configured
                          THEN DownloadName(arc.dated, arc.current) ELSE @,
                 !.visited = Append(@, ArcUnitKey),
                 !.calls = Append(@, [start |-> arc.current,
                                      end |-> ArcUnitEnd]),
                 !.failed = @ \cup {ArcUnitKey},
                 !.current = ArcUnitEnd + 1]
    /\ UNCHANGED bundles
    /\ UNCHANGED <<storeVars, planVars, callVars, fsVars, regVars, auxVars>>

\* _write_content raises (the bytes are not a zip, or the folder cannot be
\* written): the call is outside the try block, so download raises.  The
\* folder has been created and holds what was written before the failure.
ArcWriteFail ==
    /\ ArcInLoop
    /\ ~ArcCached
    /\ LET name == DownloadName(arc.dated, arc.current)
           dir == archive_dir(name, ArcUnitKey)
       IN  /\ \E partial \in PartialFiles(arc.archive_type) :
                 bundles' = WithDir(dir, DirFiles(dir) \cup partial)
           /\ arc' = [arc EXCEPT
                        !.pc = "raised",
                        !.name = name,
                        !.written = @ \cup {dir},
                        !.asked = @ \cup {Asked(dir, arc.current, ArcUnitEnd)},
                        !.visited = Append(@, ArcUnitKey),
                        !.calls = Append(@, [start |-> arc.current,
                                             end |-> ArcUnitEnd]),
                        !.failed = @ \cup {ArcUnitKey},
                        !.ncalls = @ + 1]
    /\ UNCHANGED <<storeVars, planVars, callVars, fsVars, regVars, auxVars>>

\* return sorted(files)
ArcReturn ==
    /\ arc.pc = "loop"
    /\ arc.current > arc.end
    /\ arc' = [arc EXCEPT !.pc = "returned", !.ncalls = @ + 1]
    /\ UNCHANGED bundles
    /\ UNCHANGED <<storeVars, planVars, callVars, fsVars, regVars, auxVars>>

InitArchive ==
    /\ StoreFresh
    /\ PlanIdle
    /\ FsIdle
    /\ RegFresh
    /\ enabled \in BOOLEAN
    /\ meta_geos = {}
    /\ before = NoFile
    /\ gi = 0
    /\ current = Ts(0, "naive")
    /\ all_values = << >>
    /\ calls = << >>
    /\ result = EmptyFrame
    /\ lastcall = NoCall
    /\ ncalls = 0
    /\ bundles = << >>
    /\ AuxIdle
    /\ \E h \in {"D", "M"}, t \in {"zip", "xls"}, dated \in BOOLEAN,
          nested \in BOOLEAN :
          /\ nested => t = "zip"
          /\ arc = [pc |-> "idle", kind |-> "none", horizon |-> h,
                    archive_type |-> t,
                    nested |-> nested, dated |-> dated,
                    name |-> ArchiveName, start |-> 0, end |-> 0,
                    current |-> 0, files |-> {}, calls |-> << >>,
                    visited |-> << >>, skipped |-> {}, failed |-> {},
                    written |-> {}, hit |-> {}, before |-> << >>,
                    asked |-> {}, ncalls |-> 0]

\* Ranges of a monthly archive start on the first or the 15th of a month
\* and end on the last day of a month; ranges of a daily archive start on
\* the first or the last day of month 0 and span up to three days.
ArcStarts(horizon) ==
    IF horizon = "M"
    THEN {MonthStart(m) : m \in 0 .. MaxArcMonth} \cup {MonthStart(0) + 14}
    ELSE {MonthStart(0), MonthStart(1) - 1}

ArcEnds(horizon, start_date) ==
    IF horizon = "M"
    THEN {MonthStart(m + 1) - 1 : m \in 0 .. MaxArcMonth}
    ELSE start_date .. start_date + 2

NextArchive ==
    \/ \E s \in ArcStarts(arc.horizon), n \in BOOLEAN :
          \E e \in ArcEnds(arc.horizon, s) : ArcCall(s, e, n)
    \/ ArcHit
    \/ ArcFetch
    \/ \E c \in BOOLEAN : ArcFetchFail(c)
    \/ ArcWriteFail
    \/ ArcReturn

SpecArchive == InitArchive /\ [][NextArchive]_vars

\* ArchiveHandle.download(date=...): configure, then _download_single and
\* the listing of the folder.  Nothing is caught here: a failure of
\* configure, of the download or of _write_content leaves download.
SingleOutcomes == {"ok", "configure fails", "download fails", "write fails"}

ArcSingle(date, new_handle, outcome) ==
    /\ ArcIdle
    /\ arc.ncalls < MaxArcCalls
    /\ LET configured == outcome # "configure fails"
           name == IF configured THEN DownloadName(arc.dated, date)
                   ELSE IF new_handle THEN ArchiveName ELSE arc.name
           date_key == ArcKey(arc.horizon, date)
           dir == archive_dir(name, date_key)
           hit == configured /\ enabled /\ archive_exists(name, date_key)
           fetched == configured /\ ~hit
           writes == fetched /\ outcome # "download fails"
           base == [arc EXCEPT
                      !.kind = "single", !.name = name, !.start = date,
                      !.end = date, !.current = date, !.files = {},
                      !.calls = IF fetched
                                THEN <<[start |-> date, end |-> date]>>
                                ELSE << >>,
                      !.visited = <<date_key>>,
                      !.skipped = IF hit THEN {date_key} ELSE {},
                      !.failed = IF hit \/ outcome = "ok"
                                 THEN {} ELSE {date_key},
                      !.written = IF writes THEN {dir} ELSE {},
                      !.asked = IF writes THEN @ \cup {Asked(dir, date, date)}
                                ELSE @,
                      !.hit = IF hit THEN {dir} ELSE {},
                      !.before = bundles, !.ncalls = @ + 1]
       IN  /\ hit => outcome = "ok"
           /\ IF ~writes
              THEN /\ UNCHANGED bundles
                   /\ arc' = [base EXCEPT
                                !.pc = IF hit THEN "returned" ELSE "raised",
                                !.files = IF hit THEN Paths(dir) ELSE {}]
              ELSE IF outcome = "write fails"
              THEN /\ \E partial \in PartialFiles(arc.archive_type) :
                         bundles' = WithDir(dir, DirFiles(dir) \cup partial)
                   /\ arc' = [base EXCEPT !.pc = "raised"]
              ELSE LET fs == DirFiles(dir)
                               \cup BundleFiles(arc.archive_type, arc.nested,
                                                name, date_key)
                   IN  /\ bundles' = WithDir(dir, fs)
                       /\ arc' = [base EXCEPT !.pc = "returned",
                                              !.files = Listed(dir, fs)]
    /\ UNCHANGED <<storeVars, planVars, callVars, fsVars, regVars, auxVars>>

\* Range and single-date downloads of one archive.
NextDownload ==
    \/ NextArchive
    \/ \E d \in ArcStarts(arc.horizon), n \in BOOLEAN, o \in SingleOutcomes :
          ArcSingle(d, n, o)

SpecDownload == InitArchive /\ [][NextDownload]_vars

-----------------------------------------------------------------------------
(* ZipExtractor.  A member name is a path: whether it starts with "/" and
   its segments.  A place on disk is a root, the target folder or the root of
   the filesystem, and the segments below it. *)

Name(abs, segs) == [abs |-> abs, segs |-> segs]

\* The text of a segment before its first dot; a segment without a dot is
\* returned whole.
Stem(seg) ==
    CASE seg = ".." -> ""
      [] seg = "test.txt" -> "test"
      [] seg = "escape.txt" -> "escape"
      [] seg = "inner.zip" -> "inner"
      [] seg = "evil.zip" -> "evil"
      [] OTHER -> seg

HasDot(seg) == Stem(seg) # seg

\* filename.endswith(".zip")
EndsWithZip(name) == name.segs[Len(name.segs)] \in {"inner.zip", "evil.zip"}

\* filename.split(".")[0]: the name up to its first dot.
RECURSIVE SegsBeforeDot(_)
SegsBeforeDot(segs) ==
    IF segs = << >> THEN << >>
    ELSE IF HasDot(Head(segs)) THEN <<Stem(Head(segs))>>
    ELSE <<Head(segs)>> \o SegsBeforeDot(Tail(segs))

BeforeFirstDot(name) == Name(name.abs, SegsBeforeDot(name.segs))

RECURSIVE DropSegs(_, _)
DropSegs(segs, bad) ==
    IF segs = << >> THEN << >>
    ELSE IF Head(segs) \in bad THEN DropSegs(Tail(segs), bad)
    ELSE <<Head(segs)>> \o DropSegs(Tail(segs), bad)

\* folder / name of pathlib: an absolute name replaces the folder, empty
\* segments vanish, ".." stays as it is.
Join(folder, name) ==
    IF name.abs THEN [root |-> "/", segs |-> DropSegs(name.segs, {""})]
    ELSE [folder EXCEPT !.segs = @ \o DropSegs(name.segs, {""})]

\* ZipFile.extract(member, folder): the leading "/" is stripped and the
\* ".." and empty segments are removed before the file is written.
extract(name, folder) ==
    [folder EXCEPT !.segs = @ \o DropSegs(name.segs, {"", ".."})]

TargetFolder == [root |-> "target", segs |-> <<"out">>]

\* The place is the target folder or lies below it.
Inside(place) ==
    /\ place.root = "target"
    /\ \A i \in DOMAIN place.segs : place.segs[i] # ".."
    /\ Len(place.segs) >= Len(TargetFolder.segs)
    /\ SubSeq(place.segs, 1, Len(TargetFolder.segs)) = TargetFolder.segs

\* unzip of an archive whose nested archives hold plain members: the
\* folders created and the files written.
NestedFolder(member, folder) == Join(folder, BeforeFirstDot(member.name))

unzip_created(members, folder) ==
    {folder} \cup {NestedFolder(m, folder) :
                     m \in {x \in members : EndsWithZip(x.name)}}

unzip_written(members, folder) ==
    {extract(m.name, folder) : m \in {x \in members : ~EndsWithZip(x.name)}}
        \cup UNION {{extract(n, NestedFolder(m, folder)) : n \in m.inner} :
                       m \in {x \in members : EndsWithZip(x.name)}}

\* Member names of the archives handed to unzip.
PlainNames ==
    {Name(FALSE, <<"test.txt">>), Name(FALSE, <<"..", "escape.txt">>),
     Name(TRUE, <<"tmp", "escape.txt">>)}

ZipNames ==
    {Name(FALSE, <<"inner.zip">>), Name(FALSE, <<"..", "inner.zip">>),
     Name(FALSE, <<"sub", "..", "..", "evil.zip">>),
     Name(TRUE, <<"tmp", "evil.zip">>)}

ZipMembers ==
    {[name |-> n, inner |-> {}] : n \in PlainNames}
        \cup {[name |-> n, inner |-> {i}] : n \in ZipNames, i \in PlainNames}

ZipArchives ==
    {a \in SUBSET ZipMembers :
        /\ Cardinality(a) <= MaxZipMembers
        /\ \A m1 \in a : \A m2 \in a : m1.name = m2.name => m1 = m2}

InitZip ==
    /\ StoreFresh
    /\ PlanIdle
    /\ CallIdle
    /\ FsIdle
    /\ RegFresh
    /\ bundles = << >>
    /\ arc = NoArc
    /\ http = NoAux
    /\ tree = NoAux
    /\ wr = NoAux
    /\ ws = NoAux
    /\ legacy = NoAux
    /\ \E a \in ZipArchives :
          zip = [pc |-> "new", members |-> a, created |-> {}, written |-> {}]

\* ZipExtractor(content, folder).unzip()
Unzip ==
    /\ zip.pc = "new"
    /\ zip' = [zip EXCEPT
                 !.pc = "done",
                 !.created = unzip_created(zip.members, TargetFolder),
                 !.written = unzip_written(zip.members, TargetFolder)]
    /\ UNCHANGED <<storeVars, planVars, callVars, fsVars, regVars>>
    /\ UNCHANGED <<bundles, arc, http, tree, wr, ws, legacy>>

NextZip == Unzip

SpecZip == InitZip /\ [][NextZip]_vars

-----------------------------------------------------------------------------
(* ESIOSClient and AsyncESIOSClient: get with its retry decorator, and
   download.  The waits between attempts are left out. *)

MAX_RETRIES == 3

\* What one request meets: a response, or a failure of the connection.
Response(status, location) == [status |-> status, location |-> location]
Failure(kind) == [failure |-> kind]

IsFailure(o) == "failure" \in DOMAIN o

GetOutcomes ==
    {Response(c, FALSE) : c \in {200, 400, 401, 403, 404, 500, 503}}
        \cup {Failure("ConnectError"), Failure("TimeoutException")}

DownloadOutcomes ==
    {Response(c, FALSE) : c \in {200, 307, 401, 404}}
        \cup {Response(c, TRUE) : c \in {301, 302, 307, 308}}
        \cup {Failure("ConnectError")}

\* The exception a request ends in, "none" when the body is returned.
ExceptionOf_4xx_permanent(o) ==
    IF IsFailure(o) THEN "NetworkError"
    ELSE IF o.status \in {401, 403} THEN "AuthenticationError"
    ELSE IF o.status >= 500 THEN "APIResponseError"
    ELSE IF o.status >= 400 THEN "ClientError"
    ELSE "none"
ExceptionOf(o) ==
    IF IsFailure(o) THEN "NetworkError"
    ELSE IF o.status \in {401, 403} THEN "AuthenticationError"
    ELSE IF o.status >= 400 THEN "APIResponseError"
    ELSE "none"

\* retry_if_exception_type((APIResponseError, NetworkError))
Retried_every_error(exc) == exc # "none"
Retried(exc) == exc \in {"APIResponseError", "NetworkError"}

\* stop_after_attempt(MAX_RETRIES)
StopAfterAttempt_one_more(n) == n >= MAX_RETRIES + 1
StopAfterAttempt(n) == n >= MAX_RETRIES

Clients == {"sync", "async"}

HttpIdle ==
    [pc |-> "idle", client |-> "sync", call |-> "none", attempts |-> 0,
     sent |-> << >>, met |-> << >>, error |-> "none", result |-> "none"]

GetCall(client) ==
    /\ http.pc = "idle"
    /\ http' = [http EXCEPT !.pc = "get", !.client = client, !.call = "get"]
    /\ UNCHANGED <<storeVars, planVars, callVars, fsVars, regVars>>
    /\ UNCHANGED <<bundles, arc, zip, tree, wr, ws, legacy>>

\* One attempt of get: the request goes out with the x-api-key header of
\* the client; tenacity then returns, raises or tries again.
GetAttempt(o) ==
    /\ http.pc = "get"
    /\ LET n == http.attempts + 1
           exc == ExceptionOf(o)
       IN  http' = [http EXCEPT
                      !.attempts = n,
                      !.sent = Append(@, [target |-> "api", api_key |-> TRUE]),
                      !.met = Append(@, o),
                      !.pc = IF exc = "none" THEN "returned"
                             ELSE IF Retried(exc) /\ ~StopAfterAttempt(n)
                                  THEN "get" ELSE "raised",
                      !.error = exc,
                      !.result = IF exc = "none" THEN "api" ELSE "none"]
    /\ UNCHANGED <<storeVars, planVars, callVars, fsVars, regVars>>
    /\ UNCHANGED <<bundles, arc, zip, tree, wr, ws, legacy>>

DownloadCall(client) ==
    /\ http.pc = "idle"
    /\ http' = [http EXCEPT !.pc = "download", !.client = client,
                            !.call = "download"]
    /\ UNCHANGED <<storeVars, planVars, callVars, fsVars, regVars>>
    /\ UNCHANGED <<bundles, arc, zip, tree, wr, ws, legacy>>

IsRedirect(o) ==
    ~IsFailure(o) /\ o.status \in {301, 302, 307, 308} /\ o.location

\* The first request of download, made by the client that carries the
\* x-api-key header.  The synchronous client goes on to the Location of a
\* redirect; the asynchronous one takes the response as it is.
FollowsRedirect(client) == client = "sync"

DownloadFirst(o) ==
    /\ http.pc = "download"
    /\ LET exc == ExceptionOf(o)
           follow == IsRedirect(o) /\ FollowsRedirect(http.client)
       IN  http' = [http EXCEPT
                      !.attempts = @ + 1,
                      !.sent = Append(@, [target |-> "api", api_key |-> TRUE]),
                      !.met = Append(@, o),
                      !.pc = IF follow THEN "redirected"
                             ELSE IF exc = "none" THEN "returned"
                             ELSE "raised",
                      !.error = IF follow THEN "none" ELSE exc,
                      !.result = IF ~follow /\ exc = "none"
                                 THEN "api" ELSE "none"]
    /\ UNCHANGED <<storeVars, planVars, callVars, fsVars, regVars>>
    /\ UNCHANGED <<bundles, arc, zip, tree, wr, ws, legacy>>

\* httpx.get(redirect_url, timeout=...): a plain request, without the
\* headers of the client.
FollowUpHeaders == FALSE

DownloadFollow(o) ==
    /\ http.pc = "redirected"
    /\ LET exc == ExceptionOf(o)
       IN  http' = [http EXCEPT
                      !.attempts = @ + 1,
                      !.sent = Append(@, [target |-> "presigned",
                                          api_key |-> FollowUpHeaders]),
                      !.met = Append(@, o),
                      !.pc = IF exc = "none" THEN "returned" ELSE "raised",
                      !.error = exc,
                      !.result = IF exc = "none" THEN "presigned" ELSE "none"]
    /\ UNCHANGED <<storeVars, planVars, callVars, fsVars, regVars>>
    /\ UNCHANGED <<bundles, arc, zip, tree, wr, ws, legacy>>

InitClient ==
    /\ StoreFresh
    /\ PlanIdle
    /\ CallIdle
    /\ FsIdle
    /\ RegFresh
    /\ bundles = << >>
    /\ arc = NoArc
    /\ zip = NoAux
    /\ tree = NoAux
    /\ wr = NoAux
    /\ ws = NoAux
    /\ legacy = NoAux
    /\ http = HttpIdle

NextClient ==
    \/ \E c \in Clients : GetCall(c)
    \/ \E o \in GetOutcomes : GetAttempt(o)
    \/ \E c \in Clients : DownloadCall(c)
    \/ \E o \in DownloadOutcomes : DownloadFirst(o)
    \/ \E o \in DownloadOutcomes : DownloadFollow(o)

SpecClient == InitClient /\ [][NextClient]_vars

-----------------------------------------------------------------------------
(* CacheStore.clear over the directory tree of the cache.  A path is the
   sequence of its segments below cache_dir; << >> is cache_dir itself. *)

MaxClearCalls == 2

Endpoints == {"indicators", "archives"}

NoArg == "None"

\* str(item_id) of the items the tree may hold.
ItemIds == {"600", "10034", "1"}

_item_dir(endpoint, item_id) == <<endpoint, item_id>>
_parquet_path(endpoint, item_id) == _item_dir(endpoint, item_id) \o <<"data.parquet">>
_meta_path(endpoint, item_id) == _item_dir(endpoint, item_id) \o <<"meta.json">>
_catalog_path(endpoint) == <<endpoint, "catalog.json">>
_geos_path == <<"geos.json">>

\* A file of one archive bundle, archive_dir(...) / file.
BundlePath == <<"archives", "1", "I90DIA_20250101", "I90DIA.xls">>

TreeFiles ==
    {_parquet_path("indicators", "600"), _meta_path("indicators", "600"),
     _parquet_path("indicators", "10034"), _catalog_path("indicators"),
     _catalog_path("archives"), BundlePath, _geos_path}

IsUnder(path, dir) ==
    Len(path) > Len(dir) /\ SubSeq(path, 1, Len(dir)) = dir

\* The directories that hold the files fs, cache_dir included.
Parents(fs) ==
    UNION {{SubSeq(f, 1, n) : n \in 0..(Len(f) - 1)} : f \in fs}

\* target.rglob("*") filtered by is_file()
rglob_files(t, target) == {f \in t.files : IsUnder(f, target)}

\* shutil.rmtree(target)
rmtree(t, target) ==
    [files |-> {f \in t.files : ~IsUnder(f, target)},
     dirs |-> {d \in t.dirs : d # target /\ ~IsUnder(d, target)}]

\* The directory that clear counts and removes.
clear_target_whole_endpoint(endpoint, indicator_id) ==
    IF endpoint # NoArg THEN <<endpoint>> ELSE << >>
clear_target(endpoint, indicator_id) ==
    IF endpoint # NoArg /\ indicator_id # NoArg
    THEN _item_dir(endpoint, indicator_id)
    ELSE IF endpoint # NoArg THEN <<endpoint>>
    ELSE << >>

Clear(endpoint, indicator_id) ==
    /\ tree.pc \in {"idle", "done"}
    /\ tree.calls < MaxClearCalls
    /\ LET target == clear_target(endpoint, indicator_id)
           t == [files |-> tree.files, dirs |-> tree.dirs]
           exists == target \in tree.dirs
           after == IF exists THEN rmtree(t, target) ELSE t
       IN  tree' = [pc |-> "done",
                    files |-> after.files,
                    dirs |-> after.dirs,
                    endpoint |-> endpoint,
                    indicator_id |-> indicator_id,
                    count |-> IF exists
                              THEN Cardinality(rglob_files(t, target))
                              ELSE 0,
                    before |-> t,
                    calls |-> tree.calls + 1]
    /\ UNCHANGED <<storeVars, planVars, callVars, fsVars, regVars>>
    /\ UNCHANGED <<bundles, arc, zip, http, wr, ws, legacy>>

\* Directories left empty by an earlier removal of their files.
EmptyDirs == {_item_dir("indicators", "10034"), <<"archives">>}

InitClear ==
    /\ StoreFresh
    /\ PlanIdle
    /\ CallIdle
    /\ FsIdle
    /\ RegFresh
    /\ bundles = << >>
    /\ arc = NoArc
    /\ zip = NoAux
    /\ http = NoAux
    /\ wr = NoAux
    /\ ws = NoAux
    /\ legacy = NoAux
    /\ \E fs \in SUBSET TreeFiles, empty \in SUBSET EmptyDirs :
          \E ds \in {Parents(fs \cup {e \o <<"entry">> : e \in empty})} :
             tree = [pc |-> "idle", files |-> fs, dirs |-> ds,
                     endpoint |-> NoArg, indicator_id |-> NoArg, count |-> 0,
                     before |-> [files |-> fs, dirs |-> ds], calls |-> 0]

NextClear ==
    \E endpoint \in Endpoints \cup {NoArg}, indicator_id \in ItemIds \cup {NoArg} :
        Clear(endpoint, indicator_id)

SpecClear == InitClear /\ [][NextClear]_vars

-----------------------------------------------------------------------------
(* _atomic_write_json and _atomic_write_parquet, step by step, with a
   filesystem whose operations may fail with OSError.  File contents are
   named, not spelled out: "absent", "old" (what was stored before) and
   "new" (what the call writes). *)

MaxAtomicCalls == 2

\* The methods of CacheStore that end in an atomic write.
WriteFns == {"write", "write_meta", "write_catalog", "merge_geos"}

_atomic_write(fn) ==
    IF fn = "write" THEN "_atomic_write_parquet" ELSE "_atomic_write_json"

\* The method is called; the helper is entered.
AtomicWriteCall(fn) ==
    /\ wr.pc \in {"idle", "returned", "raised"}
    /\ wr.calls < MaxAtomicCalls
    /\ wr' = [wr EXCEPT !.pc = "mkdir", !.fn = fn,
                        !.helper = _atomic_write(fn),
                        !.prev = wr.stored, !.tmp_path = "unbound",
                        !.failed = "none", !.error = "none",
                        !.warned = FALSE]
    /\ UNCHANGED <<storeVars, planVars, callVars, fsVars, regVars>>
    /\ UNCHANGED <<bundles, arc, zip, http, tree, ws, legacy>>

\* path.parent.mkdir(parents=True, exist_ok=True), before the try block.
Mkdir(ok) ==
    /\ wr.pc = "mkdir"
    /\ wr' = IF ok THEN [wr EXCEPT !.pc = "mkstemp"]
             ELSE [wr EXCEPT !.pc = "raised", !.failed = "mkdir",
                             !.error = "OSError", !.calls = @ + 1]
    /\ UNCHANGED <<storeVars, planVars, callVars, fsVars, regVars>>
    /\ UNCHANGED <<bundles, arc, zip, http, tree, ws, legacy>>

\* fd, tmp_path = tempfile.mkstemp(...).  When it raises, tmp_path has no
\* value, and the handler, after its warning, evaluates Path(tmp_path).
Mkstemp(ok) ==
    /\ wr.pc = "mkstemp"
    /\ wr' = IF ok THEN [wr EXCEPT !.pc = "write", !.tmp_path = "empty"]
             ELSE [wr EXCEPT !.pc = "raised", !.failed = "mkstemp",
                             !.warned = TRUE,
                             !.error = "UnboundLocalError",
                             !.calls = @ + 1]
    /\ UNCHANGED <<storeVars, planVars, callVars, fsVars, regVars>>
    /\ UNCHANGED <<bundles, arc, zip, http, tree, ws, legacy>>

\* write_text / to_parquet on the temp file.  On OSError the handler warns
\* and unlinks the temp file, and the helper returns.
WriteTemp(ok) ==
    /\ wr.pc = "write"
    /\ wr' = IF ok THEN [wr EXCEPT !.pc = "rename", !.tmp_path = "new"]
             ELSE [wr EXCEPT !.pc = "returned", !.failed = "write",
                             !.warned = TRUE, !.tmp_path = "absent",
                             !.calls = @ + 1]
    /\ UNCHANGED <<storeVars, planVars, callVars, fsVars, regVars>>
    /\ UNCHANGED <<bundles, arc, zip, http, tree, ws, legacy>>

\* Path(tmp_path).rename(path)
RenameTemp(ok) ==
    /\ wr.pc = "rename"
    /\ wr' = IF ok
             THEN [wr EXCEPT !.pc = "returned", !.stored = wr.tmp_path,
                             !.tmp_path = "absent", !.calls = @ + 1]
             ELSE [wr EXCEPT !.pc = "returned", !.failed = "rename",
                             !.warned = TRUE, !.tmp_path = "absent",
                             !.calls = @ + 1]
    /\ UNCHANGED <<storeVars, planVars, callVars, fsVars, regVars>>
    /\ UNCHANGED <<bundles, arc, zip, http, tree, ws, legacy>>

InitAtomic ==
    /\ StoreFresh
    /\ PlanIdle
    /\ CallIdle
    /\ FsIdle
    /\ RegFresh
    /\ bundles = << >>
    /\ arc = NoArc
    /\ zip = NoAux
    /\ http = NoAux
    /\ tree = NoAux
    /\ ws = NoAux
    /\ legacy = NoAux
    /\ \E stored \in {"absent", "old"} :
          wr = [pc |-> "idle", fn |-> "none", helper |-> "none",
                stored |-> stored, prev |-> stored, tmp_path |-> "unbound",
                failed |-> "none", error |-> "none", warned |-> FALSE,
                calls |-> 0]

NextAtomic ==
    \/ \E fn \in WriteFns : AtomicWriteCall(fn)
    \/ \E ok \in BOOLEAN : Mkdir(ok)
    \/ \E ok \in BOOLEAN : Mkstemp(ok)
    \/ \E ok \in BOOLEAN : WriteTemp(ok)
    \/ \E ok \in BOOLEAN : RenameTemp(ok)

SpecAtomic == InitAtomic /\ [][NextAtomic]_vars

-----------------------------------------------------------------------------
(* Two processes call CacheStore.write on the same item.  A step of a
   writer is the read of the existing file with the merge in memory, the
   writing of its own temp file (mkstemp gives each call a name of its own),
   or the rename onto the data file. *)

Writers == {1, 2}

\* The frames of the writers: some rows and columns, with Espana among
\* the columns, rows in increasing order.
RaceFrames ==
    {f \in InputFrames :
        ~IsEmpty(f) /\ "Espana" \in f.columns
            /\ \A i \in 1 .. Len(f.index) - 1 : f.index[i] < f.index[i + 1]}

\* The data file before the two calls: none, or both rows and columns.
BaseFiles ==
    {NoFile} \cup {f \in RaceFrames :
                      Len(f.index) = MaxStoreHour + 1 /\ f.columns = StoreCols}

\* existing = pd.read_parquet(path) if the file is there; merged.
WriterRead(i) ==
    /\ ws.w[i].pc = "start"
    /\ ws' = [ws EXCEPT !.w[i].pc = "merged", !.w[i].existing = file,
                        !.w[i].merged = write(file, ws.w[i].df)]
    /\ UNCHANGED <<storeVars, planVars, callVars, fsVars, regVars>>
    /\ UNCHANGED <<bundles, arc, zip, http, tree, wr, legacy>>

\* A temp file with one name for every call: the frame written last is
\* the frame every writer renames.
WriterTemp_one_name(i) ==
    /\ ws.w[i].pc = "merged"
    /\ ws' = [ws EXCEPT !.w = [j \in Writers |->
                 IF j = i THEN [ws.w[j] EXCEPT !.pc = "temp",
                                               !.tmp = ws.w[i].merged]
                 ELSE IF ws.w[j].pc = "temp"
                      THEN [ws.w[j] EXCEPT !.tmp = ws.w[i].merged]
                      ELSE ws.w[j]]]
    /\ UNCHANGED <<storeVars, planVars, callVars, fsVars, regVars>>
    /\ UNCHANGED <<bundles, arc, zip, http, tree, wr, legacy>>

\* mkstemp and df.to_parquet(tmp_path)
WriterTemp(i) ==
    /\ ws.w[i].pc = "merged"
    /\ ws' = [ws EXCEPT !.w[i].pc = "temp", !.w[i].tmp = ws.w[i].merged]
    /\ UNCHANGED <<storeVars, planVars, callVars, fsVars, regVars>>
    /\ UNCHANGED <<bundles, arc, zip, http, tree, wr, legacy>>

\* Path(tmp_path).rename(path)
WriterRename(i) ==
    /\ ws.w[i].pc = "temp"
    /\ file' = ws.w[i].tmp
    /\ ws' = [ws EXCEPT !.w[i].pc = "done", !.w[i].tmp = NoFile,
                        !.renamed = Append(@, i)]
    /\ UNCHANGED <<op, nwrites>>
    /\ UNCHANGED <<planVars, callVars, fsVars, regVars>>
    /\ UNCHANGED <<bundles, arc, zip, http, tree, wr, legacy>>

InitWriters ==
    /\ op = NoOp
    /\ nwrites = 0
    /\ PlanIdle
    /\ CallIdle
    /\ FsIdle
    /\ RegFresh
    /\ bundles = << >>
    /\ arc = NoArc
    /\ zip = NoAux
    /\ http = NoAux
    /\ tree = NoAux
    /\ wr = NoAux
    /\ legacy = NoAux
    /\ file \in BaseFiles
    /\ \E df1 \in RaceFrames, df2 \in RaceFrames :
          ws = [base |-> file, renamed |-> << >>,
                w |-> [i \in Writers |->
                         [pc |-> "start",
                          df |-> IF i = 1 THEN df1 ELSE df2,
                          existing |-> NoFile, merged |-> NoFile,
                          tmp |-> NoFile]]]

NextWriters ==
    \/ \E i \in Writers : WriterRead(i)
    \/ \E i \in Writers : WriterTemp(i)
    \/ \E i \in Writers : WriterRename(i)

SpecWriters == InitWriters /\ [][NextWriters]_vars

-----------------------------------------------------------------------------
(* Migration of the old flat layout.  legacy.path is the flat file
   {endpoint}/{item_id}.parquet, file is {endpoint}/{item_id}/data.parquet;
   legacy.origin is the frame the flat file held at the start and
   legacy.supplied the cells for which a write has brought a value. *)

\* CacheStore._maybe_migrate: the two files after the call.
_maybe_migrate(old_path, new_path) ==
    IF old_path = NoFile THEN [old |-> NoFile, new |-> new_path]
    ELSE IF new_path # NoFile THEN [old |-> NoFile, new |-> new_path]
    ELSE [old |-> NoFile, new |-> old_path]

\* The cells of df that hold a value.
ValueCells(df) ==
    {<<t, c>> \in DOMAIN df.cell : df.cell[<<t, c>>] # NaN}

\* CacheStore.read on an item that may still have a flat file.
MigrateRead(start, end, columns) ==
    LET m == _maybe_migrate(legacy.path, file)
    IN  /\ legacy.pc = "item"
        /\ op' = [kind |-> "read", before |-> m.new, start |-> start,
                  end |-> end, columns |-> columns,
                  result |-> read(m.new, start, end, columns)]
        /\ file' = AfterRead(m.new)
        /\ legacy' = [legacy EXCEPT !.path = m.old]
        /\ UNCHANGED nwrites
        /\ UNCHANGED <<planVars, callVars, fsVars, regVars>>
        /\ UNCHANGED <<bundles, arc, zip, http, tree, wr, ws>>

\* CacheStore.write on an item that may still have a flat file: write does
\* not look at the flat file.
MigrateWrite(df) ==
    /\ legacy.pc = "item"
    /\ nwrites < MaxWrites
    /\ file' = write(file, df)
    /\ op' = [kind |-> "write", before |-> file, frame |-> df]
    /\ nwrites' = nwrites + 1
    /\ legacy' = [legacy EXCEPT !.supplied = @ \cup ValueCells(df)]
    /\ UNCHANGED <<planVars, callVars, fsVars, regVars>>
    /\ UNCHANGED <<bundles, arc, zip, http, tree, wr, ws>>

\* The item's data is in the flat file only.
InitMigrate ==
    /\ StoreFresh
    /\ PlanIdle
    /\ CallIdle
    /\ FsIdle
    /\ RegFresh
    /\ bundles = << >>
    /\ arc = NoArc
    /\ zip = NoAux
    /\ http = NoAux
    /\ tree = NoAux
    /\ wr = NoAux
    /\ ws = NoAux
    /\ \E df \in BaseFiles \ {NoFile} :
          legacy = [pc |-> "item", path |-> df, origin |-> df,
                    supplied |-> {}]

NextMigrate ==
    \/ \E df \in InputFrames : MigrateWrite(df)
    \/ \E b \in ReadBounds : MigrateRead(b[1], b[2], {})

SpecMigrate == InitMigrate /\ [][NextMigrate]_vars

-----------------------------------------------------------------------------
(* The corruption specification: historical calls over a data file that may
   be overwritten with unreadable bytes *)

NextCorrupt ==
    \/ NextHist
    \/ CorruptFile

SpecCorrupt == InitHist /\ [][NextCorrupt]_vars

-----------------------------------------------------------------------------
(* The chunking specification: historical over ranges of several chunks *)

\* The days a chunked request ends on: the day it starts on, and the days
\* around the end of the first chunk.
ChunkEndDays == {0} \cup (CHUNK_SIZE_DAYS - 1 .. MaxChunkDay)

\* Request bounds: a date or noon of a date; the start within the first
\* day, the end on one of ChunkEndDays.
ChunkRequests ==
    {r \in {<<Ts(h1, "naive"), Ts(d2 * HoursPerDay + h2, "naive")>> :
                h1 \in {0, 12}, d2 \in ChunkEndDays, h2 \in {0, 12}} :
        r[1].wall <= r[2].wall}

InitChunk ==
    /\ StoreFresh
    /\ FsIdle
    /\ RegFresh
    /\ ExtIdle
    /\ now = HistNow
    /\ req = NoReq
    /\ cached_df = EmptyFrame
    /\ gaps = << >>
    /\ pc = "idle"
    /\ enabled \in BOOLEAN
    /\ meta_geos = DefaultGeos
    /\ before = NoFile
    /\ gi = 0
    /\ current = Ts(0, "naive")
    /\ all_values = << >>
    /\ calls = << >>
    /\ result = EmptyFrame
    /\ lastcall = NoCall
    /\ ncalls = 0

NextChunk ==
    \/ \E r \in ChunkRequests : HistCall(r[1], r[2], {})
    \/ HistFetchChunk
    \/ HistFetchFail
    \/ HistFinish
    \/ HistTempWritten
    \/ HistRename
    \/ HistReturn

SpecChunk == InitChunk /\ [][NextChunk]_vars

-----------------------------------------------------------------------------
(* Properties of the store *)

\* Row labels strictly increasing.
Increasing(index) ==
    \A i \in 1 .. Len(index) - 1 : index[i] < index[i + 1]

\* The timestamp of an instant in a frame's zone.
Label(t, tz) == Ts(t + UtcOffset(tz), tz)

LastWasMerge ==
    /\ op.kind = "write"
    /\ op.before # NoFile
    /\ ~IsEmpty(op.frame)

\* The union frame of F1 and F2 with F2 winning: sorted union of the rows,
\* union of the columns, F2's cell where F2 has a value, else F1's.
UnionFrame(F1, F2) ==
    MkFrame(F2.tz, SortedSeq(Range(F1.index) \cup Range(F2.index)),
            F1.columns \cup F2.columns,
            LAMBDA t, c :
                IF t \in Range(F2.index) /\ c \in F2.columns
                   /\ F2.cell[<<t, c>>] # NaN
                THEN F2.cell[<<t, c>>]
                ELSE IF t \in Range(F1.index) /\ c \in F1.columns
                     THEN F1.cell[<<t, c>>] ELSE NaN)

\* C1: after write(N) over a stored frame E, with N not empty, the stored
\* frame has the rows of E and N and the columns of E and N, and each cell is
\* N's where N has a value there and E's otherwise; and after writing F1 to
\* an item without file and then F2, reading the span of both returns the
\* union frame with F2 winning.
C1_WriteMergesNewWins ==
    LastWasMerge =>
        LET E == op.before
            N == op.frame
            span == Range(E.index) \cup Range(N.index)
        IN  /\ file # NoFile
            /\ Range(file.index) = span
            /\ Len(file.index) = Cardinality(span)
            /\ file.columns = E.columns \cup N.columns
            /\ \A t \in span, c \in E.columns \cup N.columns :
                  file.cell[<<t, c>>] =
                      IF t \in Range(N.index) /\ c \in N.columns
                         /\ N.cell[<<t, c>>] # NaN
                      THEN N.cell[<<t, c>>]
                      ELSE IF t \in Range(E.index) /\ c \in E.columns
                           THEN E.cell[<<t, c>>] ELSE NaN
            /\ (nwrites = 2 /\ Increasing(N.index)) =>
                  read(file, Label(SetMin(span), file.tz),
                       Label(SetMax(span), file.tz), {}) = UnionFrame(E, N)

\* A write met a stored cell with a different value, and a hole of the new
\* frame met a stored value.
C1_Witness ==
    /\ LastWasMerge
    /\ nwrites = 2
    /\ \E t \in Range(op.frame.index), c \in op.frame.columns :
          /\ op.frame.cell[<<t, c>>] # NaN
          /\ At(op.before, t, c) # NaN
          /\ At(op.before, t, c) # op.frame.cell[<<t, c>>]
    /\ \E t \in Range(op.frame.index), c \in op.frame.columns :
          /\ op.frame.cell[<<t, c>>] = NaN
          /\ At(op.before, t, c) # NaN

\* C2: a write of a frame whose only column is A keeps every other stored
\* column B, and every cell of B at a timestamp already in the file is
\* unchanged.
C2_SparseColumnPreserved ==
    (op.kind = "write" /\ op.before # NoFile
        /\ Cardinality(op.frame.columns) = 1) =>
        \A B \in op.before.columns \ op.frame.columns :
            /\ file # NoFile
            /\ B \in file.columns
            /\ \A t \in Range(op.before.index) :
                  /\ t \in Range(file.index)
                  /\ file.cell[<<t, B>>] = op.before.cell[<<t, B>>]

\* Column Espana was written over a file that holds values of Portugal on
\* the same rows.
C2_Witness ==
    /\ LastWasMerge
    /\ op.frame.columns = {"Espana"}
    /\ "Portugal" \in op.before.columns
    /\ \E t \in Range(op.before.index) \cap Range(op.frame.index) :
          /\ op.before.cell[<<t, "Portugal">>] # NaN
          /\ op.frame.cell[<<t, "Espana">>] # NaN

\* C3: on an item without file, write(F) of a frame with at least one row
\* and one column and a strictly increasing index, followed by a read over
\* [min(index), max(index)], returns exactly F.
C3_RoundTrip ==
    /\ (op.kind = "write" /\ op.before = NoFile /\ ~IsEmpty(op.frame)
           /\ Increasing(op.frame.index)) =>
          LET F == op.frame
          IN  read(file, Label(SetMin(Range(F.index)), F.tz),
                   Label(SetMax(Range(F.index)), F.tz), {}) = F
    /\ (op.kind = "read" /\ nwrites = 1 /\ op.before # NoFile
           /\ op.columns = {}
           /\ op.start = Label(SetMin(Range(file.index)), file.tz)
           /\ op.end = Label(SetMax(Range(file.index)), file.tz)) =>
          op.result = file

\* The span of a two-row frame written to a fresh item was read back.
C3_Witness ==
    /\ op.kind = "read"
    /\ nwrites = 1
    /\ op.before # NoFile
    /\ Len(file.index) = 2
    /\ op.columns = {}
    /\ op.start = Label(SetMin(Range(file.index)), file.tz)
    /\ op.end = Label(SetMax(Range(file.index)), file.tz)
    /\ op.result = file

-----------------------------------------------------------------------------
(* Properties of the planner *)

\* Last hour of an inclusive range whose upper bound is e: a date-only
\* (midnight) bound means the whole day.
EndOfRange(e) == IF HourOf(e) = 0 THEN e.wall + HoursPerDay - 1 ELSE e.wall

\* The hours of an inclusive range of naive bounds, read as UTC like
\* find_gaps reads the request.
RangeHours(r) == r.start.wall .. EndOfRange(r.end)

Planned == pc = "planned"

\* find_gaps computed coverage bounds: the frame has a covered row.
HasCoverage ==
    /\ ~IsEmpty(cached_df)
    /\ req.columns \subseteq cached_df.columns
    /\ EffectiveIndex(cached_df, req.columns) # {}

CoverageHours ==
    SetMin(EffectiveIndex(cached_df, req.columns))
        .. SetMax(EffectiveIndex(cached_df, req.columns))

\* C4: for a cached frame with coverage [a, b] and a request [s, e], every
\* hour of [s, e] (the whole day e when e is date-only) lies in [a, b] or in
\* a returned sub-range, and the returned sub-ranges do not overlap.  Stated
\* on frames indexed in UTC, where a naive bound denotes one instant whether
\* _slice or find_gaps localizes it.
C4_GapsCoverRequest ==
    (Planned /\ HasCoverage /\ cached_df.tz = "UTC") =>
        /\ \A t \in RangeHours(req) :
              \/ t \in CoverageHours
              \/ \E i \in DOMAIN gaps : t \in RangeHours(gaps[i])
        /\ \A i, j \in DOMAIN gaps :
              i # j => RangeHours(gaps[i]) \cap RangeHours(gaps[j]) = {}

\* The request [0, 0] is the whole day 0, of which a frame in UTC holds
\* only the first hour.
C4_FailingInput ==
    /\ Planned
    /\ cached_df.tz = "UTC"
    /\ cached_df.index = <<0>>
    /\ req = [start |-> Ts(0, "naive"), end |-> Ts(0, "naive"),
              columns |-> {}]
    /\ gaps = << >>

FullRequest == <<DateRange(req.start, req.end)>>

\* The rows of a frame in which every column of cols has a value.
DenseRows(df, cols) ==
    LET keep == {t \in Range(df.index) :
                    \A c \in cols : df.cell[<<t, c>>] # NaN}
    IN  [tz |-> df.tz, index |-> SelectSeq(df.index, LAMBDA t : t \in keep),
         columns |-> df.columns,
         cell |-> [q \in keep \X df.columns |-> df.cell[q]]]

\* Every hour of the request is a row with a value in column c.
DenseOverRequest(c) ==
    /\ c \in cached_df.columns
    /\ \A t \in RangeHours(req) :
          t \in Range(cached_df.index) /\ cached_df.cell[<<t, c>>] # NaN

\* The request ends at or before the recency cutoff.
OldRequest == EndOfRange(req.end) <= now - RecentTtlHours

\* C5: with a column subset, only the rows where all requested columns have
\* a value count as cached; the result is the full request when a requested
\* column is absent or all-hole, and empty when the requested column is
\* dense over an old request even though another column is all-hole.
C5_PerColumnGaps ==
    (Planned /\ ~IsEmpty(cached_df) /\ req.columns # {}) =>
        /\ (\E c \in req.columns :
                \/ c \notin cached_df.columns
                \/ \A t \in Range(cached_df.index) :
                      cached_df.cell[<<t, c>>] = NaN)
              => gaps = FullRequest
        /\ req.columns \subseteq cached_df.columns
              => gaps = find_gaps(DenseRows(cached_df, req.columns),
                                  req.start, req.end, {},
                                  RecentTtlHours, now)
        /\ (\E c \in req.columns :
                req.columns = {c} /\ DenseOverRequest(c) /\ OldRequest)
              => gaps = << >>

\* Espana is dense over an old request and Portugal is all-hole: nothing to
\* fetch for Espana.
C5_Witness ==
    /\ Planned
    /\ req.columns = {"Espana"}
    /\ DenseOverRequest("Espana")
    /\ OldRequest
    /\ "Portugal" \in cached_df.columns
    /\ \A t \in Range(cached_df.index) :
          cached_df.cell[<<t, "Portugal">>] = NaN
    /\ gaps = << >>

\* The request ends at the clock.
EndsNow == Planned /\ ToUtc(req.end) = now

\* C6 as stated: a request ending now gets a sub-range that starts no later
\* than now - 48h and extends to the end of the request.
C6_RecentRefreshFromCutoff ==
    EndsNow =>
        \E i \in DOMAIN gaps :
            /\ gaps[i].start.wall <= now - RecentTtlHours
            /\ gaps[i].end = req.end

\* C6 amended: a request ending now gets a sub-range that extends to the end
\* of the request and contains every hour of the request later than
\* now - 48h.
C6_RecentHoursRefetched ==
    EndsNow =>
        \E i \in DOMAIN gaps :
            /\ gaps[i].end = req.end
            /\ \A t \in req.start.wall .. req.end.wall :
                  t > now - RecentTtlHours => gaps[i].start.wall <= t

\* The request ends now and the cache holds every hour of it: only the
\* recent part is fetched again.
C6_Witness ==
    /\ EndsNow
    /\ HasCoverage
    /\ \A t \in req.start.wall .. req.end.wall : t \in CoverageHours
    /\ req.start.wall < now - RecentTtlHours
    /\ gaps = <<DateRange(_to_naive_date(now - RecentTtlHours), req.end)>>

-----------------------------------------------------------------------------
(* Properties of historical *)

\* The current call has returned from the fetch path or the cache path.
Returned == pc = "done"

\* The current call repeats the call before it.
RepeatsLastCall ==
    /\ lastcall.kind = "historical"
    /\ lastcall.req.start = req.start
    /\ lastcall.req.end = req.end
    /\ lastcall.req.geo_ids = req.geo_ids

\* C7: when a historical call that fetched and cached its range (all of it
\* older than the recency window) is repeated with the same arguments, the
\* repeat issues no transport call and returns the frame the first returned.
C7_WarmCacheHit ==
    (Returned /\ RepeatsLastCall /\ lastcall.calls # << >>
        /\ ToUtc(req.end) < now - RecentTtlHours)
    => (calls = << >> /\ result = lastcall.result)

\* The call historical("2025-01-01", "2025-01-03T23:00") made twice: the
\* repeat asks the server for 2025-01-03 again.
C7_FailingInput ==
    /\ Returned /\ RepeatsLastCall
    /\ req.start = Ts(0, "naive")
    /\ req.end = Ts(MaxHistDay * HoursPerDay + 23, "naive")
    /\ req.geo_ids = {}
    /\ lastcall.calls = <<[start_date |-> 0, end_date |-> MaxHistDay,
                           geo_ids |-> {}]>>
    /\ calls = <<[start_date |-> MaxHistDay, end_date |-> MaxHistDay,
                  geo_ids |-> {}]>>

\* The file holds exactly the whole days a..b of the default geos.
HoldsWholeDays(f, a, b) ==
    /\ f # NoFile
    /\ ~IsEmpty(f)
    /\ Range(f.index) = ServerInstants(a, b)
    /\ f.columns = {GeoName(g) : g \in DefaultGeos}
    /\ \A t \in Range(f.index), c \in f.columns : f.cell[<<t, c>>] # NaN

DateOnly(ts) == HourOf(ts) = 0

C8_FailingInput ==
    /\ Returned /\ req.geo_ids = {}
    /\ HoldsWholeDays(before, 1, 1)
    /\ req.start = Ts(0, "naive")
    /\ req.end = Ts(2 * HoursPerDay, "naive")
    /\ calls = <<[start_date |-> 0, end_date |-> 2, geo_ids |-> {}]>>

\* The geo filter of the current call names one geo whose column the cache
\* did not hold when the call began, the cache holding other columns.
NewGeoRequested ==
    /\ Returned
    /\ before # NoFile
    /\ ~IsEmpty(before)
    /\ req.geo_ids # {}
    /\ \A g \in req.geo_ids : GeoName(g) \notin before.columns

\* C9: a historical call filtered to a geo the cache has no column for
\* issues one transport call for the full requested range; afterwards the
\* cache has the geo's column and every cell it held before is unchanged.
C9_NewGeoFetchedOthersKept ==
    NewGeoRequested
    => /\ calls = <<[start_date |-> DayOf(req.start),
                     end_date |-> DayOf(req.end),
                     geo_ids |-> req.geo_ids,
                     options |-> req.options]>>
       /\ \A g \in req.geo_ids : GeoName(g) \in file.columns
       /\ \A t \in Range(before.index), c \in before.columns :
              /\ t \in Range(file.index)
              /\ c \in file.columns
              /\ file.cell[<<t, c>>] = before.cell[<<t, c>>]

\* Espana and Portugal cached for a range, the same range requested for
\* Alemania, and the values of Alemania stored.
C9_Witness ==
    /\ NewGeoRequested
    /\ before.columns = {"Espana", "Portugal"}
    /\ Range(before.index) = ServerInstants(DayOf(req.start), DayOf(req.end))
    /\ req.geo_ids = {"8826"}
    /\ \E t \in Range(file.index) : file.cell[<<t, "Alemania">>] # NaN
    /\ \E t \in Range(before.index) : before.cell[<<t, "Espana">>] # NaN

-----------------------------------------------------------------------------
(* Properties of the chunk loop *)

\* The positions of the calls whose date window contains day d.
CallsFor(d) ==
    {i \in DOMAIN calls : calls[i].start_date <= d /\ d <= calls[i].end_date}

\* C10: when the chunk loop has ended for the sub-range [s, e], every day
\* from the day of s to the day of e lies in the window of exactly one call.
C10_ChunksCoverEachDayOnce ==
    (pc = "fetched" /\ ~enabled)
    => \A d \in DayOf(req.start) .. DayOf(req.end) :
           Cardinality(CallsFor(d)) = 1

\* start noon of day 0, end day 22: one call for days 0..21, day 22 in none.
C10_FailingInput ==
    /\ pc = "fetched" /\ ~enabled
    /\ req.start = Ts(12, "naive")
    /\ req.end = Ts((CHUNK_SIZE_DAYS + 1) * HoursPerDay, "naive")
    /\ calls = <<[start_date |-> 0, end_date |-> CHUNK_SIZE_DAYS,
                  geo_ids |-> {}]>>

\* The whole days a call asks for: start_date 00:00 to end_date 23:59:59.
DaysCovered(params) == params.end_date - params.start_date + 1

\* C11 as stated: every transport request of historical, its end_date day
\* counted in full, spans at most CHUNK_SIZE_DAYS days.
C11_RequestSpanWithEndDay ==
    \A i \in DOMAIN calls : DaysCovered(calls[i]) <= CHUNK_SIZE_DAYS

\* C11: the end_date of every transport request of historical is at most
\* CHUNK_SIZE_DAYS days after its start_date, so that a request covers at
\* most CHUNK_SIZE_DAYS + 1 whole days.
C11_RequestDatesWithinChunk ==
    \A i \in DOMAIN calls :
        /\ calls[i].end_date - calls[i].start_date <= CHUNK_SIZE_DAYS
        /\ DaysCovered(calls[i]) <= CHUNK_SIZE_DAYS + 1

\* A sub-range longer than one chunk was requested and its first request
\* has the greatest span.
C11_Witness ==
    /\ pc = "fetched"
    /\ DayOf(req.end) - DayOf(req.start) > CHUNK_SIZE_DAYS
    /\ Len(calls) = 2
    /\ calls[1].end_date - calls[1].start_date = CHUNK_SIZE_DAYS

-----------------------------------------------------------------------------
(* Properties of a failing fetch *)

-----------------------------------------------------------------------------
(* Properties of the persist step *)

\* The data file after the running call has persisted all it fetched.
FullPostState == write(before, _to_wide(all_values))

\* C13: what a reader finds in the data file while a historical call runs
\* is the file as it was when the call began, or, once the call has
\* persisted, the file with all observations of the call merges in.
C13_ReaderSeesPreOrPost ==
    (seen.at = ncalls /\ pc # "idle")
    => \/ seen.file = before
       \/ (pc = "done" /\ seen.file = FullPostState)

\* A reader opened the file while the temp file was complete and not yet
\* renamed, and the call went on to change the file.
C13_Witness ==
    /\ seen.at = ncalls
    /\ seen.pc = "rename"
    /\ pc = "done"
    /\ seen.file = before
    /\ file = FullPostState
    /\ file # before

\* C14: after write is interrupted before the rename, the data file is the
\* one stored before, with its content.
C14_InterruptKeepsPriorFile ==
    pc = "killed" => file = before

\* The kill came after the temp file was fully written, over a stored file
\* that the write would have changed.
C14_Witness ==
    /\ pc = "killed"
    /\ IsFrame(before)
    /\ IsFrame(tmp)
    /\ tmp # before
    /\ file = before

-----------------------------------------------------------------------------
(* Properties of an unreadable data file *)

\* The running call found unreadable bytes in the data file.
FoundCorrupt == pc # "idle" /\ enabled /\ before = Corrupt

\* C15: when the data file holds unreadable bytes, the read of a historical
\* call returns an empty frame, the file is gone afterwards (until the call
\* writes a new one), and the call fetches the whole requested range.
C15_CorruptFileDroppedAndRefetched ==
    FoundCorrupt
    => /\ cached_df = EmptyFrame
       /\ gaps = <<DateRange(req.start, req.end)>>
       /\ file # Corrupt
       /\ pc \in {"fetch", "fetched", "temp", "rename", "raised"}
              => file = NoFile
       /\ pc = "done"
              => calls = <<ChunkParams(req.start, req.end, req.geo_ids,
                                       req.options)>>

\* A call over an unreadable file has fetched the range and stored a
\* readable file.
C15_Witness ==
    /\ FoundCorrupt
    /\ pc = "done"
    /\ calls # << >>
    /\ IsFrame(file)
    /\ lastcall.kind = "historical"

-----------------------------------------------------------------------------
(* Properties of the geo registry *)

\* The ids that appeared in some merge_geos call.
Appeared == UNION {Ids(merges[i]) : i \in 1..Len(merges)}

\* The most recent merge_geos call that contained the id.
LastMergeOf(id) ==
    CHOOSE i \in 1..Len(merges) :
        /\ id \in Ids(merges[i])
        /\ \A j \in (i + 1)..Len(merges) : id \notin Ids(merges[j])

-----------------------------------------------------------------------------
(* Properties of the catalogue *)

\* The projection of a catalogue response that the cache keeps.
Lightweight(indicators) ==
    {[id |-> i.id, name |-> i.name, short_name |-> i.short_name] :
        i \in indicators}

\* C17: with the cache enabled, a list() or search() that finds a fresh
\* catalogue issues no transport call and returns the cached items, and a
\* list() that fetched leaves the lightweight projection stored, so that
\* the next call within the TTL finds it.
C17_ListUsesFreshCatalog ==
    (enabled /\ out.kind \in {"list", "search"})
    => /\ out.fresh => ~out.fetched
       /\ out.stored
       /\ (out.fetched /\ net[Len(net)] = "indicators"
             /\ catalog \notin {NoFile, Corrupt})
              => catalog.items = Lightweight(ServerCatalog)

\* list() twice on a new cache directory: both calls reached the transport
\* and no catalogue was stored.
C17_FailingInput ==
    /\ enabled
    /\ net = <<"indicators", "indicators">>
    /\ out.kind = "list"
    /\ catalog = NoFile

\* The catalogue record is readable.
CatalogStored == catalog \notin {NoFile, Corrupt}

\* C18: read_catalog returns the stored items when updated_at is at most
\* catalog_ttl_hours old, and none when it is older or the file is missing
\* or corrupt; a list() that finds no fresh catalogue asks the transport.
C18_CatalogTtl ==
    /\ ~CatalogStored => read_catalog(catalog, now) = None
    /\ (CatalogStored
          /\ now - catalog.updated_at <= _DEFAULT_CATALOG_TTL_HOURS)
           => read_catalog(catalog, now) = [items |-> catalog.items]
    /\ (CatalogStored
          /\ now - catalog.updated_at > _DEFAULT_CATALOG_TTL_HOURS)
           => read_catalog(catalog, now) = None
    /\ (out.kind = "list" /\ ~out.fresh)
           => (out.fetched /\ net[Len(net)] = "indicators")

\* A catalogue was backdated past the TTL and the list() after it fetched.
C18_Witness ==
    /\ CatalogStored
    /\ now - catalog.updated_at = _DEFAULT_CATALOG_TTL_HOURS + 1
    /\ out.kind = "list"
    /\ ~out.fresh
    /\ out.fetched
    /\ net = <<"indicators">>

-----------------------------------------------------------------------------
(* Properties of get *)

\* C19: with the cache enabled, get(id) issues a transport call only when
\* no fresh metadata record is cached; a get that fetched leaves the
\* metadata stored, so that a second get within meta_ttl_days issues no
\* call; the handle carries the id and name either way.
C19_GetUsesFreshMeta ==
    (enabled /\ out.kind = "get")
    => /\ out.fetched <=> ~out.fresh
       /\ out.stored
       /\ out.id = ServerIndicator.id
       /\ out.name = ServerIndicator.name

\* get(600) twice on a new cache directory: both calls reached the
\* transport and no metadata was stored.
C19_FailingInput ==
    /\ enabled
    /\ net = <<"indicators/600", "indicators/600">>
    /\ out.kind = "get"
    /\ meta = NoFile

-----------------------------------------------------------------------------
(* Properties of geo enrichment *)

\* The geos in the metadata of a handle that get returns for an item.
DeclaredGeos == Ids(ServerIndicator.geos)

\* C20: with the cache enabled, once a historical call has returned, every
\* geo pair seen in its responses is in the item's metadata and in the
\* global registry, and resolve_geo of its name gives its id on this handle
\* and on the handle of any item.
C20_GeoEnrichmentPersisted ==
    (enabled /\ pc = "done")
    => \A q \in AllPairs(all_values) :
          /\ q[2] \in meta_geos
          /\ resolve_geo(meta_geos, GeoName(q[2])) = q[2]
          /\ <<q[2], GeoName(q[2])>> \in read_geos(geos)
          /\ resolve_geo(DeclaredGeos, GeoName(q[2])) = q[2]

\* A historical call returned values of a geo that the metadata did not
\* list; the handle learned it and no registry file exists.
C20_FailingInput ==
    /\ enabled
    /\ pc = "done"
    /\ \E q \in AllPairs(all_values) :
          /\ q[2] \notin DeclaredGeos
          /\ q[2] \in meta_geos
          /\ resolve_geo(DeclaredGeos, GeoName(q[2])) = "ValueError"
    /\ geos = NoFile

-----------------------------------------------------------------------------
(* Properties of archive downloads *)

\* C21: a failure while processing one chunk of a range download, be it in
\* resolving the URL, in downloading or in writing the content into the
\* bundle directory, is skipped: the call does not raise, and it returns
\* the files of the chunks that succeeded.
C21_ChunkFailureSkipped ==
    /\ arc.pc # "raised"
    /\ arc.pc = "returned" =>
          arc.files \subseteq UNION {Paths(d) : d \in DOMAIN bundles}
    /\ arc.pc = "returned" =>
          \A p \in arc.files : p.dir.key \notin arc.failed

\* The content of a chunk could not be written and download raised, after
\* an earlier chunk of the same call had been fetched.
C21_FailingInput ==
    /\ arc.pc = "raised"
    /\ Len(arc.calls) = 2
    /\ Cardinality(arc.failed) = 1
    /\ arc.files # {}

\* The calendar units of the range of the call, in order.
RECURSIVE ArcUnitsFrom(_, _, _)
ArcUnitsFrom(horizon, d, end_date) ==
    IF d > end_date THEN << >>
    ELSE <<ArcKey(horizon, d)>>
             \o ArcUnitsFrom(horizon, ArcChunkEnd(horizon, d, end_date) + 1,
                             end_date)

\* The bundle directories of a unit that held files when the call started.
Materialised(key) ==
    {d \in DOMAIN arc.before : d.key = key /\ arc.before[d] # {}}

\* C22: a range download that has returned went through each calendar unit
\* of [start, end] once, in increasing order; a unit whose bundle directory
\* held files caused no transport call and its files are in the result;
\* exactly the units without a bundle were asked of the transport.
C22_UnitsOnceCachedSkipped ==
    arc.pc = "returned"
    => /\ arc.visited = ArcUnitsFrom(arc.horizon, arc.start, arc.end)
       /\ \A i \in DOMAIN arc.visited :
             LET u == arc.visited[i]
             IN  /\ Materialised(u) # {} <=> u \in arc.skipped
                 /\ \A d \in Materialised(u) : Paths(d) \subseteq arc.files
       /\ Len(arc.calls) = Len(arc.visited) - Cardinality(arc.skipped)

\* S5 with a server whose download names carry the date: the month that
\* was downloaded before is asked of the transport again.
C22_FailingInput ==
    /\ arc.pc = "returned"
    /\ enabled
    /\ arc.horizon = "M"
    /\ arc.start = MonthStart(0)
    /\ arc.end = MonthStart(3) - 1
    /\ Materialised([month |-> 1]) # {}
    /\ Len(arc.calls) = 3
    /\ arc.failed = {}

-----------------------------------------------------------------------------
(* Properties of the extractor *)

UnsafeName(name) ==
    name.abs \/ \E i \in DOMAIN name.segs : name.segs[i] = ".."

\* The archive has a member, or a member of a nested archive, whose name is
\* absolute or has a ".." segment.
UnsafeArchive(members) ==
    \E m \in members :
        UnsafeName(m.name) \/ \E n \in m.inner : UnsafeName(n)

\* C23: unzip creates and writes nothing outside its target folder, and an
\* archive with an absolute or ".." member name is rejected: nothing of it
\* is written.
C23_ExtractionStaysInside ==
    zip.pc = "done"
    => /\ \A place \in zip.created \cup zip.written : Inside(place)
       /\ UnsafeArchive(zip.members) => zip.written = {}

\* A nested archive named /tmp/evil.zip was expanded into /tmp/evil.
C23_FailingInput ==
    /\ zip.pc = "done"
    /\ zip.members = {[name |-> Name(TRUE, <<"tmp", "evil.zip">>),
                       inner |-> {Name(FALSE, <<"test.txt">>)}]}
    /\ [root |-> "/", segs |-> <<"tmp", "evil", "test.txt">>] \in zip.written

-----------------------------------------------------------------------------
(* Properties of the client *)

Last(seq) == seq[Len(seq)]

\* C24: a 401 or 403 response to get raises AuthenticationError after that
\* one attempt: it is never followed by another attempt.
C24_AuthNeverRetried ==
    http.call = "get"
    => \A i \in DOMAIN http.met :
          ExceptionOf(http.met[i]) = "AuthenticationError"
          => /\ i = Len(http.met)
             /\ http.pc = "raised"
             /\ http.error = "AuthenticationError"

\* The first response was a 401 and the call raised at once.
C24_Witness ==
    /\ http.call = "get"
    /\ http.pc = "raised"
    /\ http.attempts = 1
    /\ http.met = <<Response(401, FALSE)>>
    /\ http.error = "AuthenticationError"

\* C25: a get makes at most MAX_RETRIES attempts; it returns at the first
\* successful response, goes on after a connection error, a timeout or a
\* 5xx while attempts are left, and raises the error of the last allowed
\* attempt; a call in progress always has an attempt left.
C25_BoundedRetry ==
    http.call = "get"
    => /\ http.attempts <= MAX_RETRIES
       /\ http.attempts = Len(http.met)
       /\ http.pc = "get" => http.attempts < MAX_RETRIES
       /\ http.pc = "returned"
             <=> (http.met # << >> /\ ExceptionOf(Last(http.met)) = "none")
       /\ \A i \in DOMAIN http.met :
             (i < MAX_RETRIES
                 /\ (IsFailure(http.met[i]) \/ http.met[i].status >= 500))
             => (i < Len(http.met) \/ http.pc = "get")
       /\ (http.pc = "raised" /\ http.attempts = MAX_RETRIES)
             => http.error = ExceptionOf(Last(http.met))

\* Two transient failures and then a third one: the call raised it.
C25_Witness ==
    /\ http.call = "get"
    /\ http.pc = "raised"
    /\ http.attempts = MAX_RETRIES
    /\ http.met = <<Failure("ConnectError"), Response(503, FALSE),
                    Failure("TimeoutException")>>
    /\ http.error = "NetworkError"

NonAuth4xx(o) ==
    ~IsFailure(o) /\ o.status >= 400 /\ o.status < 500
        /\ o.status \notin {401, 403}

\* C26: a 400 or 404 response to get is surfaced after the first attempt,
\* with no retry.
C26_ClientErrorNotRetried ==
    http.call = "get"
    => \A i \in DOMAIN http.met :
          NonAuth4xx(http.met[i])
          => (i = Len(http.met) /\ http.pc = "raised")

\* C26, as the code has it: a 400 or 404 response to get raises
\* APIResponseError, which is retried like a transient failure; it is
\* surfaced only when it is met on attempt MAX_RETRIES.
C26_ClientErrorRetried ==
    http.call = "get"
    => \A i \in DOMAIN http.met :
          NonAuth4xx(http.met[i])
          => /\ i < MAX_RETRIES => (i < Len(http.met) \/ http.pc = "get")
             /\ (i = MAX_RETRIES)
                   => (http.pc = "raised"
                          /\ http.error = "APIResponseError")

\* Three 404 responses, and the call raised after the third.
C26_Witness ==
    /\ http.call = "get"
    /\ http.pc = "raised"
    /\ http.met = <<Response(404, FALSE), Response(404, FALSE),
                    Response(404, FALSE)>>
    /\ http.error = "APIResponseError"

\* C27: when the download request is answered with a redirect that has a
\* Location, a follow-up request goes to that target without the API key,
\* what download returns are the bytes of the follow-up, and no request
\* to the target carries the API key.
C27_RedirectFollowedWithoutKey ==
    (http.call = "download" /\ http.met # << >> /\ IsRedirect(http.met[1]))
    => /\ http.pc \in {"redirected", "returned", "raised"}
       /\ http.pc # "redirected"
             => /\ Len(http.sent) = 2
                /\ http.sent[2] = [target |-> "presigned", api_key |-> FALSE]
       /\ http.pc = "returned" => http.result = "presigned"
       /\ \A i \in DOMAIN http.sent :
             http.sent[i].target = "presigned" => ~http.sent[i].api_key

\* The asynchronous client met a 307 with a Location and returned the body
\* of that response after one request.
C27_FailingInput ==
    /\ http.call = "download"
    /\ http.client = "async"
    /\ http.met = <<Response(307, TRUE)>>
    /\ http.pc = "returned"
    /\ http.result = "api"

-----------------------------------------------------------------------------
(* Properties of clear *)

\* The files of the scope of the last call, as they were before it.
Scope ==
    LET e == tree.endpoint
        i == tree.indicator_id
    IN  IF e # NoArg /\ i # NoArg
        THEN {f \in tree.before.files : IsUnder(f, _item_dir(e, i))}
        ELSE IF e # NoArg
        THEN {f \in tree.before.files : f[1] = e /\ Len(f) > 1}
        ELSE tree.before.files

\* C28: clear removes exactly the files of its scope and returns their
\* number: with an endpoint and an id the files under the item directory,
\* which is gone afterwards, while the files of other items, catalog.json
\* and geos.json stay; with an endpoint alone the subtree of the endpoint
\* with its catalogue; without arguments every file under the root.
C28_ClearScopedAndCounted ==
    (tree.pc = "done" /\ (tree.indicator_id # NoArg => tree.endpoint # NoArg))
    => /\ tree.files = tree.before.files \ Scope
       /\ tree.count = Cardinality(Scope)
       /\ (tree.endpoint # NoArg /\ tree.indicator_id # NoArg)
             => /\ _item_dir(tree.endpoint, tree.indicator_id) \notin tree.dirs
                /\ \A f \in tree.before.files :
                      (\/ f = _geos_path
                       \/ f = _catalog_path(tree.endpoint)
                       \/ SubSeq(f, 1, 2)
                             # _item_dir(tree.endpoint, tree.indicator_id))
                      => f \in tree.files
       /\ (tree.endpoint # NoArg /\ tree.indicator_id = NoArg)
             => /\ _catalog_path(tree.endpoint) \notin tree.files
                /\ \A f \in tree.before.files :
                      f[1] # tree.endpoint => f \in tree.files
       /\ (tree.endpoint = NoArg) => tree.files = {}

\* clear("indicators", 600) removed data.parquet and meta.json of the item
\* and left the other item, the catalogue and the registry.
C28_Witness ==
    /\ tree.pc = "done"
    /\ tree.endpoint = "indicators"
    /\ tree.indicator_id = "600"
    /\ tree.before.files = TreeFiles
    /\ tree.count = 2
    /\ tree.files = TreeFiles \ {_parquet_path("indicators", "600"),
                                   _meta_path("indicators", "600")}

-----------------------------------------------------------------------------
(* Properties of aggregated calls *)

\* A historical call with an aggregation option has returned.
AggregatedReturned == pc = "done" /\ req.options # {}

\* C29: a historical call that sets time_agg, geo_agg, time_trunc or
\* geo_trunc neither reads nor writes the data file of the item: it asks
\* the transport for the full range and leaves the file as it was.
C29_AggregatedNeverStored ==
    AggregatedReturned
    => /\ file = before
       /\ calls = <<ChunkParams(req.start, req.end, req.geo_ids,
                                req.options)>>

\* A call with time_trunc alone on an empty cache has returned and the
\* data file now holds the rows of its response.
C29_FailingInput ==
    /\ AggregatedReturned
    /\ req.options = {"time_trunc"}
    /\ before = NoFile
    /\ file # NoFile
    /\ ~IsEmpty(file)
    /\ calls # << >>

-----------------------------------------------------------------------------
(* Properties of the atomic write *)

\* C30: when creating the temp file, writing it or renaming it fails, the
\* method returns normally, no exception reaches the caller, and the file
\* stored before is intact.
C30_FailedWriteNeverFailsCaller ==
    wr.failed \in {"mkstemp", "write", "rename"}
    => /\ wr.pc = "returned"
       /\ wr.error = "none"
       /\ wr.stored = wr.prev

\* mkstemp failed during write_meta over an existing file: the handler
\* warned and then raised UnboundLocalError to the caller.
C30_FailingInput ==
    /\ wr.fn = "write_meta"
    /\ wr.failed = "mkstemp"
    /\ wr.pc = "raised"
    /\ wr.warned
    /\ wr.error = "UnboundLocalError"
    /\ wr.stored = "old"

-----------------------------------------------------------------------------
(* Properties of bundles *)

\* The files of a bundle directory when the call started.
FilesBefore(dir) ==
    IF dir \in DOMAIN arc.before THEN arc.before[dir] ELSE {}

\* C31: a download call, for one date or for a range, writes nothing into
\* a bundle directory that held files when the call started, and the files
\* of such a directory are afterwards what they were.
C31_BundlesImmutable ==
    arc.pc # "idle"
    => /\ \A dir \in arc.written : FilesBefore(dir) = {}
       /\ \A dir \in DOMAIN arc.before :
             arc.before[dir] # {} => bundles[dir] = arc.before[dir]

\* With the cache disabled, a second range download of a day wrote into
\* the bundle directory the first one had filled.
C31_FailingInput ==
    /\ ~enabled
    /\ arc.kind = "range"
    /\ arc.pc = "returned"
    /\ arc.start = arc.end
    /\ \E dir \in arc.written :
          /\ FilesBefore(dir) # {}
          /\ bundles[dir] = arc.before[dir]

\* Every file below a bundle directory, at any depth.
Materialised_files(dir) == {[dir |-> dir, file |-> f] : f \in DirFiles(dir)}

\* The bundle directories of the chunks of the call: those found in the
\* cache and those written.
ChunkDirs == arc.hit \cup arc.written

\* C32: a range download that has returned lists every file materialised
\* in the bundle directories of its chunks, cached or newly downloaded,
\* those in sub-directories made for nested containers included.
C32_ReturnsAllMaterialised ==
    (arc.kind = "range" /\ arc.pc = "returned")
    => arc.files = UNION {Materialised_files(dir) : dir \in ChunkDirs}

\* A returned range download of an archive whose zip holds a nested zip:
\* the file extracted into the sub-folder is not in the list.
C32_FailingInput ==
    /\ arc.kind = "range"
    /\ arc.pc = "returned"
    /\ arc.nested
    /\ arc.failed = {}
    /\ \E dir \in arc.written :
          /\ <<"detail", "I90DIA_detail.xls">> \in bundles[dir]
          /\ [dir |-> dir, file |-> <<"detail", "I90DIA_detail.xls">>]
                \notin arc.files
          /\ [dir |-> dir, file |-> <<"I90DIA.xls">>] \in arc.files

-----------------------------------------------------------------------------
(* Properties of the stored frame *)

-----------------------------------------------------------------------------
(* Properties of concurrent writers *)

\* Both writers read the base file before either renamed.
SameBase ==
    \A i \in Writers :
        ws.w[i].pc # "start" /\ ws.w[i].existing = ws.base

BothRenamed == Len(ws.renamed) = 2

\* The two new frames have the same value wherever both have one.
Agree(df1, df2) ==
    \A t \in Range(df1.index) \cap Range(df2.index),
       c \in df1.columns \cap df2.columns :
        (df1.cell[<<t, c>>] # NaN /\ df2.cell[<<t, c>>] # NaN)
        => df1.cell[<<t, c>>] = df2.cell[<<t, c>>]

\* C34: when two writes of an item interleave, the data file is at every
\* moment the base file or the complete output of a writer that has
\* renamed; when both read the same base, the file after both renames is
\* the merge of the last renamer's frame with the base; and two frames
\* that agree where both have a value give the same stored frame when
\* written one after the other in either order.
C34_LastWriterWins ==
    /\ \/ file = ws.base
       \/ \E i \in Writers : ws.w[i].pc = "done" /\ file = ws.w[i].merged
    /\ (BothRenamed /\ SameBase)
          => file = write(ws.base, ws.w[ws.renamed[2]].df)
    /\ Agree(ws.w[1].df, ws.w[2].df)
          => write(write(ws.base, ws.w[1].df), ws.w[2].df)
               = write(write(ws.base, ws.w[2].df), ws.w[1].df)

\* Both read the same stored frame, the second writer renamed last, and
\* a value only the first writer had is not in the file.
C34_Witness ==
    /\ BothRenamed
    /\ SameBase
    /\ ws.base # NoFile
    /\ ws.renamed = <<1, 2>>
    /\ file # ws.w[1].merged
    /\ \E t \in Range(ws.w[1].df.index) :
          /\ ws.w[1].df.cell[<<t, "Espana">>] # NaN
          /\ file.cell[<<t, "Espana">>] # ws.w[1].df.cell[<<t, "Espana">>]
    /\ Agree(ws.w[1].df, ws.w[2].df)

-----------------------------------------------------------------------------
(* Properties of the shape of the planned gaps *)

WellFormed(g) == g.start.wall <= g.end.wall

InsideRequest(g) == req.start.wall <= g.start.wall /\ g.end.wall <= req.end.wall

C35_FailingInput ==
    /\ pc = "planned"
    /\ ~IsEmpty(cached_df)
    /\ req.start.wall % HoursPerDay # 0
    /\ \E i \in 1 .. Len(gaps) : ~WellFormed(gaps[i])

-----------------------------------------------------------------------------
(* Properties of the migration of the old layout *)

\* data.parquet as the next read finds it.
Readable == _maybe_migrate(legacy.path, file).new

\* The cells of the flat file that are no longer readable although no
\* write supplied a value for them.
LostCells ==
    {x \in ValueCells(legacy.origin) \ legacy.supplied :
        \/ ~IsFrame(Readable)
        \/ x \notin DOMAIN Readable.cell
        \/ Readable.cell[x] # legacy.origin.cell[x]}

\* C36: for an item whose data is in the flat file of the old layout only,
\* after any reads and writes every value of the flat file is readable from
\* data.parquet unless a later write supplied a value for its cell.
C36_MigrationKeepsData == legacy.pc = "item" => LostCells = {}

\* A write before the first read: data.parquet holds the written frame
\* only, and the flat file, with values nothing replaced, is still there
\* for the next read to remove.
C36_FailingInput ==
    /\ legacy.pc = "item"
    /\ op.kind = "write"
    /\ op.before = NoFile
    /\ legacy.path = legacy.origin
    /\ file = op.frame
    /\ LostCells # {}

-----------------------------------------------------------------------------
(* Properties of clear with an item id *)

\* The files the last clear removed.
Removed == tree.before.files \ tree.files

\* C37: clear called with an item id removes only files under the directory
\* of that item, whatever the endpoint argument is (an endpoint, None or
\* the empty string): the files of other items, the catalogues, the bundles
\* and geos.json stay.
C37_ClearWithIdStaysInItem ==
    (tree.pc = "done" /\ tree.indicator_id # NoArg)
    => \A f \in Removed :
          \E e \in Endpoints : IsUnder(f, _item_dir(e, tree.indicator_id))

\* clear(None, id) or clear("", id): geos.json, a catalogue and the file
\* of another item are gone.
C37_FailingInput ==
    /\ tree.pc = "done"
    /\ tree.endpoint = NoArg
    /\ tree.indicator_id = "600"
    /\ _geos_path \in Removed
    /\ _catalog_path("indicators") \in Removed
    /\ _parquet_path("indicators", "10034") \in Removed

-----------------------------------------------------------------------------
(* Properties of the disabled cache *)

C38_FailingInput ==
    /\ ~enabled
    /\ arc.pc = "returned"
    /\ arc.kind = "range"
    /\ arc.hit = {}
    /\ \E dir \in arc.written :
          dir \notin DOMAIN arc.before /\ DirFiles(dir) # {}

-----------------------------------------------------------------------------
(* Properties of the bundle directory of a chunk *)

\* C39: in every step of a range download that writes the content of a
\* chunk, the directory written is the directory the hit test of that
\* chunk looked at (same name and date key), so that the chunk is a hit
\* for the next identical call on a new handle.
C39_HitDirIsWriteDir ==
    [][(arc.pc = "loop" /\ arc'.written # arc.written)
          => archive_dir(arc.name, ArcUnitKey) \in arc'.written]_vars

\* With the cache enabled a range download has returned without a hit
\* although every directory it wrote held files when the call started.
C39_FailingInput ==
    /\ enabled
    /\ arc.pc = "returned"
    /\ arc.kind = "range"
    /\ arc.hit = {}
    /\ arc.failed = {}
    /\ arc.written # {}
    /\ \A dir \in arc.written :
          dir \in DOMAIN arc.before /\ arc.before[dir] # {}

-----------------------------------------------------------------------------
(* Properties of the bundles of a monthly archive *)

\* The days of month m that the range of the call asks for.
MonthAsked(m) ==
    [start |-> Max(arc.start, MonthStart(m)),
     end |-> Min(arc.end, MonthStart(m + 1) - 1)]

\* C40: a range download of a monthly archive reports a hit on the bundle
\* of a month only when that bundle was downloaded for a range that covers
\* the days of the month now requested.
C40_MonthlyHitCoversRequest ==
    (arc.pc = "returned" /\ arc.kind = "range" /\ arc.horizon = "M")
    => \A dir \in arc.hit :
          \E a \in arc.asked :
              /\ a.dir = dir
              /\ a.start <= MonthAsked(dir.key.month).start
              /\ MonthAsked(dir.key.month).end <= a.end

\* The bundle of month 0 was downloaded for the 15th to the end of the
\* month; a later call for the whole month is served that bundle.
C40_FailingInput ==
    /\ arc.pc = "returned"
    /\ arc.kind = "range"
    /\ arc.horizon = "M"
    /\ arc.start = MonthStart(0)
    /\ arc.calls = << >>
    /\ \E dir \in arc.hit :
          /\ dir.key = [month |-> 0]
          /\ \A a \in arc.asked : a.dir = dir => a.start = MonthStart(0) + 14

====
